---- MODULE Spec2Model ----
\* A model of renderdoc's SPIR-V disassembler (spirv_disassemble.cpp):
\* the expression renderer for OpVectorShuffle, the reflection extractor
\* (MakeReflection), the module parser (ParseSPIRV / GetByID) and the
\* per-function passes of SPVModule::Disassemble (inliner, redundant-label
\* sweep, control-flow rebuild).
EXTENDS Integers, Sequences, FiniteSets, TLC

VARIABLES
  \* ---- SPVModule ----
  moduleVersion,  \* module.moduleVersion
  generator,      \* module.generator
  ids,            \* module.ids: slot k+1 holds the instruction of id k, or NULL
  operations,     \* module.operations: every instruction allocated; an
                  \* instruction pointer is its index in this sequence
  moduleGlobals,  \* module.globals, as instruction pointers
  \* ---- OpVectorShuffle rendering (SPVInstruction::Disassemble) ----
  shufPc,        \* "idle" | "ready" | "done"
  vectorSize,    \* vec1type->vectorSize
  literals,      \* op->literals of the shuffle
  inlineOp,      \* the inlineOp parameter of Disassemble
  ret,           \* the rendered string, as a sequence of tokens
  \* ---- SPVModule::MakeReflection ----
  reflPc,        \* "idle" | "globals" | "finish" | "done"
  globals,       \* module.globals: the global variables, as records
  usedGlobals,   \* ids of globals that some operation has as an argument
  gi,            \* the loop index i over globals (1-based)
  inputs,        \* vector<SigParameter> inputs
  outputs,       \* vector<SigParameter> outputs
  cblocks,       \* vector<cblockpair>
  resources,     \* vector<shaderrespair>
  InputAttributes,   \* mapping->InputAttributes, slot L+1 holds location L
  InputSig,          \* reflection->InputSig
  OutputSig,         \* reflection->OutputSig
  ConstantBlocks,    \* mapping->/reflection->ConstantBlocks, zipped
  ReadOnlyResources, \* mapping->/reflection->ReadOnlyResources, zipped
  \* ---- ParseSPIRV and SPVModule::GetByID ----
  parsePc,        \* "idle" | "header" | "pass1" | "parsed" | "rejected"
  spirv,          \* the word buffer (spirv[0] of the code is spirv[1] here)
  it,             \* the cursor of the structural pass (0-based, as in the code)
  diagnostics,    \* the RDCERR / RDCWARN messages logged so far
  lookupId,       \* the argument of the caller's last GetByID after parsing
  lookupRet,      \* the pointer it returned
  lookupHit,      \* whether that call found the id registered
  curFunc,        \* curFunc of ParseSPIRV: the OpFunction being parsed, or NULL
  curBlock,       \* curBlock of ParseSPIRV: the OpLabel of the open block, or NULL
  \* ---- SPVModule::Disassemble, for one function ----
  disPc,          \* "idle", "block", "instr", "sweep", "rebuild", "done", or
                  \* "fault" once a null or out-of-range access has happened
  blocks,         \* func->blocks
  variables,      \* func->variables
  funcVars,       \* the local copy `vars` of func->variables
  funcops,        \* the emit list
  ignore_items,   \* instructions of the current block not to be emitted
  blockIdx,       \* b of the loop over the blocks, counted from 1
  instIdx,        \* i of the loop over a block's instructions, from 1
  sweepIdx,       \* l of the redundant-label sweep, from 1
  rebuildIdx,     \* o of the rebuild loop, from 1
  indent,
  selectionstack,
  elsestack,
  loopheadstack,
  loopstartstack,
  loopmergestack,
  varDeclared,    \* the indices v of funcVars with varDeclared[v] set
  funcDisassembly,
  m_Disassembly,  \* the lines of m_Disassembly that belong to the function
  run,            \* which call of Disassemble this is
  firstRun,       \* the annotations the first call left
  \* ---- MakeReflection and Disassemble on one module ----
  indPc,          \* "idle" | "parsed"
  parsedOperations,  \* module.operations as ParseSPIRV left them
  disCalls,       \* how many calls of Disassemble have returned
  reflection,     \* what the last call of MakeReflection returned, or NoReflection
  declText        \* the struct and global declarations of m_Disassembly

shufVars == <<shufPc, vectorSize, literals, inlineOp, ret>>

reflVars == <<reflPc, globals, usedGlobals, gi, inputs, outputs, cblocks,
              resources, InputAttributes, InputSig, OutputSig, ConstantBlocks,
              ReadOnlyResources>>

moduleVars == <<moduleVersion, generator, ids, operations, moduleGlobals>>

parseVars == <<parsePc, spirv, it, diagnostics, lookupId, lookupRet, lookupHit,
               curFunc, curBlock>>

disVars == <<disPc, blocks, variables, funcVars, funcops, ignore_items, blockIdx,
             instIdx, sweepIdx, rebuildIdx, indent, selectionstack, elsestack,
             loopheadstack, loopstartstack, loopmergestack, varDeclared,
             funcDisassembly, m_Disassembly, run, firstRun>>

indVars == <<indPc, parsedOperations, disCalls, reflection, declText>>

vars == <<moduleVars, shufVars, reflVars, parseVars, disVars, indVars>>

\* the variables of the other components, which a component's steps leave alone
notShufVars == <<moduleVars, reflVars, parseVars, disVars, indVars>>
notReflVars == <<moduleVars, shufVars, parseVars, disVars, indVars>>
notParseVars == <<shufVars, reflVars, disVars, indVars>>
notDisVars == <<shufVars, reflVars, parseVars, indVars>>
notIndVars == <<shufVars, reflVars, parseVars, disVars>>

----------------------------------------------------------------------------
\* Generic helpers

Max2(a, b) == IF a >= b THEN a ELSE b

RECURSIVE SeqsUpTo(_, _)
\* all sequences over S of length 0..n
SeqsUpTo(S, n) ==
  IF n = 0 THEN {<<>>}
  ELSE LET shorter == SeqsUpTo(S, n - 1)
       IN  shorter \cup {Append(s, x) : s \in {t \in shorter : Len(t) = n - 1}, x \in S}

----------------------------------------------------------------------------
\* MakeReflection

MaxGlobals == 3     \* most global variables in a module
MaxLocation == 2    \* largest Location decoration
MaxBinding == 1     \* largest Binding decoration
MaxSet == 1         \* largest DescriptorSet decoration
NumInputAttributes == 16  \* create_array_uninit(mapping->InputAttributes, 16)
NoDecoration == -1  \* the decoration is absent from inst->decorations

\* the order SortByVarClass leaves module.globals in: by the numeric value of
\* spv::StorageClass
StorageRank(storage) ==
  CASE storage = "UniformConstant" -> 0
    [] storage = "Input" -> 1
    [] storage = "Uniform" -> 2
    [] storage = "Output" -> 3

\* a global variable: its id, storage class, decorations (absent ones are
\* NoDecoration; BuiltIn is given by the system attribute it maps to, "None"
\* when there is no BuiltIn decoration) and the shape of its pointee type
GlobalShapes ==
  [storage : {"Input"}, location : {NoDecoration} \cup (0 .. MaxLocation),
   systemValue : {"None"}, matrixSize : 1 .. 2,
   isStruct : {FALSE}, bindset : {NoDecoration}, bind : {NoDecoration}]
  \cup
  [storage : {"Input", "Output"}, location : {NoDecoration},
   systemValue : {"None", "Position"}, matrixSize : {1},
   isStruct : {FALSE}, bindset : {NoDecoration}, bind : {NoDecoration}]
  \cup
  [storage : {"Uniform"}, location : {NoDecoration},
   systemValue : {"None"}, matrixSize : {1},
   isStruct : {TRUE}, bindset : {NoDecoration} \cup (0 .. MaxSet),
   bind : {NoDecoration} \cup (0 .. MaxBinding)]
  \cup
  [storage : {"UniformConstant"}, location : {NoDecoration},
   systemValue : {"None"}, matrixSize : {1},
   isStruct : {FALSE}, bindset : {NoDecoration} \cup (0 .. MaxSet),
   bind : {NoDecoration} \cup (0 .. MaxBinding)]

WithId(shape, id) == [id |-> id] @@ shape

\* the locations a non-system input occupies (one per matrix row)
Rows(g) ==
  LET base == IF g.location = NoDecoration THEN 0 ELSE g.location
  IN  base .. (base + g.matrixSize - 1)

\* a module the parser can leave behind: globals sorted by storage class,
\* user inputs on pairwise distinct locations
WellFormedGlobals(gs) ==
  /\ \A i \in 1 .. Len(gs) : gs[i].id = i
  /\ \A i \in 1 .. Len(gs) - 1 :
       StorageRank(gs[i].storage) <= StorageRank(gs[i + 1].storage)
  /\ \A i, j \in 1 .. Len(gs) :
       (i < j /\ gs[i].storage = "Input" /\ gs[j].storage = "Input"
          /\ gs[i].systemValue = "None" /\ gs[j].systemValue = "None")
       => Rows(gs[i]) \cap Rows(gs[j]) = {}

\* bindpair::operator<
bindpairLess(a, b) ==
  IF a.map.bindset # b.map.bindset THEN a.map.bindset < b.map.bindset
  ELSE IF a.map.bind = -1 /\ b.map.bind = -1 THEN FALSE
  ELSE IF a.map.bind = -1 THEN FALSE
  ELSE IF b.map.bind = -1 THEN TRUE
  ELSE a.map.bind < b.map.bind

\* the numeric order of the system attributes (eAttr_None is the enum's first)
SystemAttributeValue(sv) == IF sv = "None" THEN 0 ELSE 1

\* sig_param_sort::operator()
sig_param_sort(a, b) ==
  IF a.systemValue = b.systemValue THEN a.regIndex < b.regIndex
  ELSE IF a.systemValue = "None" THEN FALSE
  ELSE IF b.systemValue = "None" THEN TRUE
  ELSE SystemAttributeValue(a.systemValue) < SystemAttributeValue(b.systemValue)

IndexPermutations(n) ==
  {f \in [1 .. n -> 1 .. n] : \A i, j \in 1 .. n : i # j => f[i] # f[j]}

\* std::sort: every ordering of the elements in which no element is less than
\* one before it (elements the comparison ties may come out in any order);
\* less is the comparison as the set of index pairs <<i, j>> with seq[i] < seq[j]
StdSort(seq, less) ==
  {[i \in 1 .. Len(seq) |-> seq[f[i]]] : f \in
     {g \in IndexPermutations(Len(seq)) :
        \A i, j \in 1 .. Len(seq) : i < j => <<g[j], g[i]>> \notin less}}

SortSignature(sigarray) ==
  StdSort(sigarray, {p \in (1 .. Len(sigarray)) \X (1 .. Len(sigarray)) :
                       sig_param_sort(sigarray[p[1]], sigarray[p[2]])})

SortBindpairs(pairs) ==
  StdSort(pairs, {p \in (1 .. Len(pairs)) \X (1 .. Len(pairs)) :
                    bindpairLess(pairs[p[1]], pairs[p[2]])})

\* AddSignatureParameter for a vector or matrix typed variable: the entries
\* pushed on sigarray
SigEntries(g) ==
  LET regIndex == IF g.location = NoDecoration THEN 0 ELSE g.location
      sig == [id |-> g.id, systemValue |-> g.systemValue, regIndex |-> regIndex,
              row |-> 0]
  IN  IF g.matrixSize = 1 THEN <<sig>>
      ELSE [m \in 1 .. g.matrixSize |->
              [sig EXCEPT !.regIndex = regIndex + (m - 1), !.row = m - 1]]

RECURSIVE SetInputAttrs(_, _, _, _)
\* the writes inputAttrs->elems[regIndex] = sigarray.size(), entry by entry
SetInputAttrs(attrs, entries, k, size) ==
  IF k > Len(entries) THEN attrs
  ELSE SetInputAttrs(
         IF entries[k].systemValue = "None"
         THEN [attrs EXCEPT ![entries[k].regIndex + 1] = size]
         ELSE attrs,
         entries, k + 1, size + 1)

\* BindpointMap filled from the decorations and the scan of module.operations
BindMapOf(g) ==
  [bindset |-> IF g.bindset = NoDecoration THEN 0 ELSE g.bindset,
   bind    |-> IF g.bind = NoDecoration THEN -1 ELSE g.bind,
   used    |-> g.id \in usedGlobals]

ReflIdle ==
  /\ reflPc = "idle" /\ globals = <<>> /\ usedGlobals = {} /\ gi = 0
  /\ inputs = <<>> /\ outputs = <<>> /\ cblocks = <<>> /\ resources = <<>>
  /\ InputAttributes = <<>> /\ InputSig = <<>> /\ OutputSig = <<>>
  /\ ConstantBlocks = <<>> /\ ReadOnlyResources = <<>>

ReflInit ==
  /\ reflPc = "globals"
  /\ \E shapes \in SeqsUpTo(GlobalShapes, MaxGlobals) :
       /\ globals = [i \in 1 .. Len(shapes) |-> WithId(shapes[i], i)]
       /\ WellFormedGlobals(globals)
  \* a used uniform has its binding declared (the RDCASSERT on bindmap.used)
  /\ usedGlobals \in SUBSET {i \in 1 .. Len(globals) :
                                /\ globals[i].storage = "Uniform"
                                /\ globals[i].bind # NoDecoration}
  /\ gi = 1
  /\ inputs = <<>> /\ outputs = <<>> /\ cblocks = <<>> /\ resources = <<>>
  /\ InputAttributes = [i \in 1 .. NumInputAttributes |-> -1]
  /\ InputSig = <<>> /\ OutputSig = <<>>
  /\ ConstantBlocks = <<>> /\ ReadOnlyResources = <<>>

\* one iteration of the loop over globals, an Input or Output variable
ReflectSignature ==
  /\ reflPc = "globals" /\ gi <= Len(globals)
  /\ globals[gi].storage \in {"Input", "Output"}
  /\ LET g == globals[gi] IN
       IF g.storage = "Input"
       THEN /\ inputs' = inputs \o SigEntries(g)
            /\ InputAttributes' =
                 SetInputAttrs(InputAttributes, SigEntries(g), 1, Len(inputs))
            /\ UNCHANGED outputs
       ELSE /\ outputs' = outputs \o SigEntries(g)
            /\ UNCHANGED <<inputs, InputAttributes>>
  /\ gi' = gi + 1
  /\ UNCHANGED <<reflPc, globals, usedGlobals, cblocks, resources, InputSig,
                 OutputSig, ConstantBlocks, ReadOnlyResources>>
  /\ UNCHANGED notReflVars

\* one iteration of the loop over globals, a Uniform / UniformConstant variable
ReflectBinding ==
  /\ reflPc = "globals" /\ gi <= Len(globals)
  /\ globals[gi].storage \in {"Uniform", "UniformConstant"}
  /\ LET g == globals[gi]
         pair == [map |-> BindMapOf(g), bindres |-> [name |-> g.id]]
     IN  IF g.isStruct
         THEN cblocks' = Append(cblocks, pair) /\ UNCHANGED resources
         ELSE resources' = Append(resources, pair) /\ UNCHANGED cblocks
  /\ gi' = gi + 1
  /\ UNCHANGED <<reflPc, globals, usedGlobals, inputs, outputs, InputAttributes,
                 InputSig, OutputSig, ConstantBlocks, ReadOnlyResources>>
  /\ UNCHANGED notReflVars

\* the copy-out loops: -1 bind points become 0, bindPoint is the index
BindTable(sorted) ==
  [i \in 1 .. Len(sorted) |->
     [map |-> [sorted[i].map EXCEPT
                 !.bind = IF sorted[i].map.bind = -1 THEN 0 ELSE sorted[i].map.bind],
      bindres |-> [name |-> sorted[i].bindres.name, bindPoint |-> i - 1]]]

\* the sorts and the copy-out after the loop over globals
ReflectFinish ==
  /\ reflPc = "globals" /\ gi > Len(globals)
  /\ InputSig' \in SortSignature(inputs)
  /\ OutputSig' \in SortSignature(outputs)
  /\ \E sc \in SortBindpairs(cblocks) : ConstantBlocks' = BindTable(sc)
  /\ \E sr \in SortBindpairs(resources) : ReadOnlyResources' = BindTable(sr)
  /\ reflPc' = "done"
  /\ UNCHANGED <<globals, usedGlobals, gi, inputs, outputs, cblocks, resources,
                 InputAttributes>>
  /\ UNCHANGED notReflVars

ReflNext == ReflectSignature \/ ReflectBinding \/ ReflectFinish

\* the global variable a table entry was made from
GlobalOf(entry) == globals[entry.bindres.name]

\* C7 for one table
SortedUnboundLast(table) ==
  \A i, j \in 1 .. Len(table) :
    i < j =>
      LET a == GlobalOf(table[i])
          b == GlobalOf(table[j])
      IN  /\ ~(a.bind = NoDecoration /\ b.bind # NoDecoration)
          /\ (a.bind # NoDecoration /\ b.bind # NoDecoration) =>
               \/ table[i].map.bindset < table[j].map.bindset
               \/ /\ table[i].map.bindset = table[j].map.bindset
                  /\ table[i].map.bind <= table[j].map.bind

\* C7: after MakeReflection the constant-block table and the read-only-resource
\* table are each ordered by (descriptor set, binding) ascending, and the
\* entries whose variable had no Binding decoration trail all other entries of
\* their table, whatever their descriptor sets.
C7_ReflectionSort ==
  reflPc = "done" =>
    SortedUnboundLast(ConstantBlocks) /\ SortedUnboundLast(ReadOnlyResources)

\* C10: after MakeReflection, for every non-system-value input signature entry
\* with location L < 16, InputAttributes[L] is the index of that entry in the
\* returned input signature array, and every other slot is -1.
C10_InputAttributeTable ==
  reflPc = "done" =>
    /\ \A k \in 1 .. Len(InputSig) :
         (InputSig[k].systemValue = "None"
            /\ InputSig[k].regIndex < NumInputAttributes)
         => InputAttributes[InputSig[k].regIndex + 1] = k - 1
    /\ \A L \in 0 .. NumInputAttributes - 1 :
         (\A k \in 1 .. Len(InputSig) :
            ~(InputSig[k].systemValue = "None" /\ InputSig[k].regIndex = L))
         => InputAttributes[L + 1] = -1

----------------------------------------------------------------------------
\* ParseSPIRV and GetByID

MaxIdBound == 3     \* largest ID bound in a header
MaxInstrs == 2      \* most instructions in a module body
NULL == 0           \* the null instruction pointer
MagicNumber == 119734787   \* spv::MagicNumber, 0x07230203
Version == 99              \* spv::Version, the one supported version
WordCountShift == 65536    \* spirv[it] >> spv::WordCountShift, as a divisor
OpCodeMask == 65536        \* spirv[it] & spv::OpCodeMask, as a modulus

\* the opcodes of the modelled subset, by their spv::Op values
OpNop == 0
OpUndef == 1
OpTypeInt == 21
OpTypeFloat == 22
OpTypeVector == 23
OpVariable == 59
OpConstant == 43
OpConstantComposite == 44
OpFunction == 54
OpFunctionParameter == 55
OpFunctionEnd == 56
OpFunctionCall == 57
OpLoad == 61
OpStore == 62
OpCopyMemory == 63
OpAccessChain == 65
OpCompositeConstruct == 80
OpCompositeExtract == 81
OpCompositeInsert == 82
OpFNegate == 127
OpFAdd == 129
OpSelect == 169
OpLoopMerge == 246
OpSelectionMerge == 247
OpLabel == 248
OpBranch == 249
OpBranchConditional == 250
OpSwitch == 251
OpReturn == 253
OpReturnValue == 254
\* spv::OpUnknown = (Op)~0U: the opcode of a dummy; no instruction word holds it
OpUnknown == -1

StorageClassUniformConstant == 0
StorageClassInput == 1
StorageClassUniform == 2
StorageClassOutput == 3

Word(buf, i) == buf[i + 1]

\* SPVInstruction(): the fields a fresh instruction starts with
\* (the payload pointers ext, entry, op, flow, type, func, block, constant, var
\* are the is* flags; the payload's fields follow each flag)
NewInstruction ==
  [opcode |-> OpNop, id |-> 0, str |-> "",
   isType |-> FALSE, baseType |-> NULL, typeKind |-> "", typeName |-> "",
   children |-> <<>>,
   isFunc |-> FALSE, funcBlocks |-> <<>>, funcVariables |-> <<>>,
   isVar |-> FALSE, varType |-> NULL, storage |-> 0,
   isConstant |-> FALSE, i32 |-> 0, hi |-> 0, constType |-> NULL,
   vectorSize |-> 0,
   isOp |-> FALSE, arguments |-> <<>>, complexity |-> 0, inlineArgs |-> {},
   access |-> 0,
   funcCall |-> 0, mathop |-> FALSE,
   isFlow |-> FALSE, condition |-> NULL, targets |-> <<>>,
   isBlock |-> FALSE, instructions |-> <<>>, mergeFlow |-> NULL,
   exitFlow |-> NULL]

\* GetByID with the registration ids[id] = &op of the dummy left out
GetByIDUnregistered(idtab, ops, log, id) ==
  IF idtab[id + 1] # NULL
  THEN [ret |-> idtab[id + 1], ids |-> idtab, operations |-> ops, log |-> log]
  ELSE [ret |-> Len(ops) + 1,
        ids |-> idtab,
        operations |-> Append(ops, [NewInstruction EXCEPT !.opcode = OpUnknown,
                                                          !.id = id]),
        log |-> Append(log, "dummy instruction")]

\* SPVModule::GetByID as a function of the module: the pointer returned, and
\* the ids / operations / log it leaves
GetByID(idtab, ops, log, id) ==
  IF idtab[id + 1] # NULL
  THEN [ret |-> idtab[id + 1], ids |-> idtab, operations |-> ops, log |-> log]
  ELSE LET dummy == [NewInstruction EXCEPT !.opcode = OpUnknown, !.id = id]
           ptr   == Len(ops) + 1
       IN  [ret |-> ptr,
            ids |-> [idtab EXCEPT ![id + 1] = ptr],
            operations |-> Append(ops, dummy),
            log |-> Append(log, "dummy instruction")]

\* the instruction streams explored: every result id and operand id is below
\* the ID bound, as the SPIR-V rules require
InstructionWords(bound) ==
  {<<3 * WordCountShift + OpTypeFloat, id, 32>> : id \in 1 .. bound - 1}
  \cup {<<4 * WordCountShift + OpTypeVector, id, base, 4>> :
          id \in 1 .. bound - 1, base \in 1 .. bound - 1}
  \cup {<<4 * WordCountShift + OpVariable, type, id, sc>> :
          type \in 1 .. bound - 1, id \in 1 .. bound - 1,
          sc \in {StorageClassInput, StorageClassUniform, StorageClassOutput}}
  \cup {<<1 * WordCountShift + OpNop>>}
  \cup {<<3 * WordCountShift + OpUndef, type, id>> :
          type \in 1 .. bound - 1, id \in 1 .. bound - 1}

RECURSIVE Flatten(_)
Flatten(seqs) ==
  IF seqs = <<>> THEN <<>> ELSE Head(seqs) \o Flatten(Tail(seqs))

\* no two instructions of a module declare the same result id
DistinctResults(body) ==
  \A i, j \in 1 .. Len(body) :
    (i < j /\ body[i][1] % OpCodeMask # OpNop /\ body[j][1] % OpCodeMask # OpNop)
    => LET ri == IF body[i][1] % OpCodeMask \in {OpTypeFloat, OpTypeVector}
                 THEN body[i][2] ELSE body[i][3]
           rj == IF body[j][1] % OpCodeMask \in {OpTypeFloat, OpTypeVector}
                 THEN body[j][2] ELSE body[j][3]
       IN  ri # rj

\* ---- modules that hold one function. Id 1 is the float type (the function's
\* return and function type as well), id 2 the function; the labels and the
\* results of the body take the ids from FirstBodyId on, in stream order.
\* An item is [k, a]: k the kind of instruction, a the id it refers to.
MaxBlockOps == 2    \* most instructions between a label and its terminator
MaxOperand == 2     \* an operand or branch target is one of the first MaxOperand + 1 body ids
IdFloat == 1
IdFunction == 2
FirstBodyId == 3

OperandIds == FirstBodyId .. FirstBodyId + MaxOperand

BodyItems ==
  {[k |-> "FNegate", a |-> x] : x \in OperandIds} \cup {[k |-> "Undef", a |-> 0]}

\* OpSwitch ends a block as well, and the structural pass has no case for it
Terminators ==
  {[k |-> "Return", a |-> 0], [k |-> "Switch", a |-> 0]}
    \cup {[k |-> "Branch", a |-> t] : t \in OperandIds}

BlockItems(n) ==
  {<<[k |-> "Label", a |-> 0]>> \o body \o <<t>> :
     body \in SeqsUpTo(BodyItems, n), t \in Terminators}

DefinesId(item) == item.k \in {"Label", "FNegate", "Undef"}

\* the ID bound of a function of these items: one more than the last id used
BoundOf(items) ==
  FirstBodyId + Cardinality({j \in 1 .. Len(items) : DefinesId(items[j])})

\* the functions explored: one block, or two shorter ones; every id referred
\* to is below the ID bound
FunctionItems ==
  {items \in BlockItems(MaxBlockOps)
             \cup {b1 \o b2 : b1 \in BlockItems(MaxBlockOps - 1),
                              b2 \in BlockItems(MaxBlockOps - 1)} :
     \A j \in 1 .. Len(items) : items[j].a < BoundOf(items)}

RECURSIVE EncodeItems(_, _)
\* the words of the items, the next unused id being `next`
EncodeItems(items, next) ==
  IF items = <<>> THEN <<>>
  ELSE LET x == Head(items)
           words ==
             CASE x.k = "Label" -> <<2 * WordCountShift + OpLabel, next>>
               [] x.k = "FNegate" ->
                    <<4 * WordCountShift + OpFNegate, IdFloat, next, x.a>>
               [] x.k = "Undef" -> <<3 * WordCountShift + OpUndef, IdFloat, next>>
               [] x.k = "Return" -> <<1 * WordCountShift + OpReturn>>
               [] x.k = "Branch" -> <<2 * WordCountShift + OpBranch, x.a>>
               [] x.k = "Switch" ->
                    <<3 * WordCountShift + OpSwitch, FirstBodyId, FirstBodyId>>
       IN  words \o EncodeItems(Tail(items), IF DefinesId(x) THEN next + 1 ELSE next)

\* the module of one function; `trailer` is what follows OpFunctionEnd
FunctionStream(items, trailer) ==
  <<MagicNumber, Version, 7, BoundOf(items), 0>>
    \o <<3 * WordCountShift + OpTypeFloat, IdFloat, 32>>
    \o <<5 * WordCountShift + OpFunction, IdFloat, IdFunction, 0, IdFloat>>
    \o EncodeItems(items, FirstBodyId)
    \o <<1 * WordCountShift + OpFunctionEnd>>
    \o trailer

\* after the function: nothing, or one more instruction at module scope
Trailers == {<<>>, <<1 * WordCountShift + OpNop>>}

\* SPVModule::SPVModule(): an empty module
ModuleIdle ==
  /\ moduleVersion = 0 /\ generator = 0
  /\ ids = <<>> /\ operations = <<>> /\ moduleGlobals = <<>>

ParseIdle ==
  /\ parsePc = "idle" /\ spirv = <<>> /\ it = 0
  /\ diagnostics = <<>> /\ lookupId = 0 /\ lookupRet = NULL
  /\ lookupHit = FALSE
  /\ curFunc = NULL /\ curBlock = NULL

\* a freshly constructed SPVModule and a caller's buffer
ParseInit ==
  /\ parsePc = "header"
  /\ \/ \E magic \in {MagicNumber, MagicNumber + 1}, ver \in {Version, Version + 1},
           bound \in 1 .. MaxIdBound :
          \E body \in SeqsUpTo(InstructionWords(bound), MaxInstrs) :
            /\ DistinctResults(body)
            /\ spirv = <<magic, ver, 7, bound, 0>> \o Flatten(body)
     \/ \E items \in FunctionItems, trailer \in Trailers :
          spirv = FunctionStream(items, trailer)
  /\ it = 0 /\ ModuleIdle
  /\ diagnostics = <<>> /\ lookupId = 0 /\ lookupRet = NULL
  /\ lookupHit = FALSE
  /\ curFunc = NULL /\ curBlock = NULL

MaxConstItems == 4  \* most instructions after the types of a constant module
IdUint == 1
IdUint2 == 2
FirstConstId == 3

\* 32-bit scalar constants, two-component vectors of them, and OpNop
ConstItems ==
  {[k |-> "Const", a |-> v, b |-> 0] : v \in {0, 1}}
    \cup {[k |-> "Nop", a |-> 0, b |-> 0]}
    \cup {[k |-> "Composite", a |-> x, b |-> y] :
            x \in FirstConstId .. FirstConstId + 1,
            y \in FirstConstId .. FirstConstId + 1}

\* the id the j-th item defines
ConstIdOf(items, j) ==
  FirstConstId + Cardinality({i \in 1 .. j - 1 : items[i].k # "Nop"})

\* the components of every vector are scalar constants defined before it
ConstBodies ==
  {items \in SeqsUpTo(ConstItems, MaxConstItems) :
     /\ items # <<>>
     /\ \A j \in 1 .. Len(items) :
          items[j].k = "Composite" =>
            \A x \in {items[j].a, items[j].b} :
              \E i \in 1 .. j - 1 :
                items[i].k = "Const" /\ ConstIdOf(items, i) = x}

RECURSIVE EncodeConstItems(_, _)
EncodeConstItems(items, next) ==
  IF items = <<>> THEN <<>>
  ELSE LET x == Head(items)
           words ==
             CASE x.k = "Const" ->
                    <<4 * WordCountShift + OpConstant, IdUint, next, x.a>>
               [] x.k = "Nop" -> <<1 * WordCountShift + OpNop>>
               [] x.k = "Composite" ->
                    <<5 * WordCountShift + OpConstantComposite, IdUint2, next,
                      x.a, x.b>>
       IN  words \o EncodeConstItems(Tail(items),
                                     IF x.k = "Nop" THEN next ELSE next + 1)

\* a module of a 32-bit unsigned type, its two-component vector and constants
ConstantStream(items) ==
  <<MagicNumber, Version, 7, ConstIdOf(items, Len(items) + 1), 0>>
    \o <<4 * WordCountShift + OpTypeInt, IdUint, 32, 0>>
    \o <<4 * WordCountShift + OpTypeVector, IdUint2, IdUint, 2>>
    \o EncodeConstItems(items, FirstConstId)

\* a freshly constructed SPVModule and a buffer of constants
ConstInit ==
  /\ parsePc = "header"
  /\ \E items \in ConstBodies : spirv = ConstantStream(items)
  /\ it = 0 /\ ModuleIdle
  /\ diagnostics = <<>> /\ lookupId = 0 /\ lookupRet = NULL
  /\ lookupHit = FALSE
  /\ curFunc = NULL /\ curBlock = NULL

MaxStores == 2      \* most stores in the block of a storing module
NoAccess == 4       \* marks a store without the optional operand
AccessMasks == {0, 1, 2}

\* OpStore / OpCopyMemory, with or without a memory-access operand
StoreItems ==
  {[k |-> kind, a |-> m] :
     kind \in {"Store", "Copy"}, m \in AccessMasks \cup {NoAccess}}

RECURSIVE EncodeStoreItems(_)
\* pointer and object are the two ids after the label's
EncodeStoreItems(items) ==
  IF items = <<>> THEN <<>>
  ELSE LET x == Head(items)
           opcode == IF x.k = "Store" THEN OpStore ELSE OpCopyMemory
           words ==
             IF x.a = NoAccess
             THEN <<3 * WordCountShift + opcode, FirstBodyId + 1, FirstBodyId + 2>>
             ELSE <<4 * WordCountShift + opcode, FirstBodyId + 1, FirstBodyId + 2,
                    x.a>>
       IN  words \o EncodeStoreItems(Tail(items))

\* the module of one function of one block of stores; `closing` is the rest
\* of the buffer after the last store
StoreStream(items, closing) ==
  <<MagicNumber, Version, 7, FirstBodyId + 3, 0>>
    \o <<3 * WordCountShift + OpTypeFloat, IdFloat, 32>>
    \o <<5 * WordCountShift + OpFunction, IdFloat, IdFunction, 0, IdFloat>>
    \o <<2 * WordCountShift + OpLabel, FirstBodyId>>
    \o EncodeStoreItems(items)
    \o closing

\* the block and the function are closed, or the buffer stops after the
\* last store
Closings ==
  {<<1 * WordCountShift + OpReturn, 1 * WordCountShift + OpFunctionEnd>>, <<>>}

\* a freshly constructed SPVModule and a buffer of stores
StoreInit ==
  /\ parsePc = "header"
  /\ \E items \in SeqsUpTo(StoreItems, MaxStores), closing \in Closings :
       /\ items # <<>>
       /\ spirv = StoreStream(items, closing)
  /\ it = 0 /\ ModuleIdle
  /\ diagnostics = <<>> /\ lookupId = 0 /\ lookupRet = NULL
  /\ lookupHit = FALSE
  /\ curFunc = NULL /\ curBlock = NULL

\* the header checks at the top of ParseSPIRV
ParseHeader ==
  /\ parsePc = "header"
  /\ IF Word(spirv, 0) # MagicNumber
     THEN /\ diagnostics' = Append(diagnostics, "Unrecognised SPIR-V magic number")
          /\ parsePc' = "rejected"
          /\ UNCHANGED <<moduleVersion, generator, ids, it>>
     ELSE IF Word(spirv, 1) # Version
     THEN /\ moduleVersion' = Word(spirv, 1)
          /\ diagnostics' = Append(diagnostics, "Unsupported SPIR-V version")
          /\ parsePc' = "rejected"
          /\ UNCHANGED <<generator, ids, it>>
     ELSE /\ moduleVersion' = Word(spirv, 1)
          /\ generator' = Word(spirv, 2)
          /\ ids' = [k \in 1 .. Word(spirv, 3) |-> NULL]
          /\ it' = 5
          /\ parsePc' = "pass1"
          /\ UNCHANGED diagnostics
  /\ UNCHANGED <<spirv, operations, moduleGlobals, lookupId, lookupRet,
                 lookupHit, curFunc, curBlock>>
  /\ UNCHANGED notParseVars

RECURSIVE GetArguments(_, _, _, _, _, _)
\* the loop `for(; word < WordCount; word++) arguments.push_back(GetByID(..))`
\* over the words w .. last - 1 of the buffer: the module it leaves and the
\* argument pointers
GetArguments(idtab, ops, log, buf, w, last) ==
  IF w >= last
  THEN [ids |-> idtab, operations |-> ops, log |-> log, args |-> <<>>]
  ELSE LET g    == GetByID(idtab, ops, log, Word(buf, w))
           rest == GetArguments(g.ids, g.operations, g.log, buf, w + 1, last)
       IN  [rest EXCEPT !.args = <<g.ret>> \o rest.args]

\* the default case with the result id read and registered, as the cases of
\* the handled opcodes do
UnhandledOpcodeRegistered(M0, buf, at) ==
  LET self == Len(M0.operations)
      WordCount == Word(buf, at) \div WordCountShift
      rid  == IF WordCount >= 3 THEN Word(buf, at + 2) ELSE 0
      M1 == [M0 EXCEPT !.operations =
                         IF M0.curBlock # NULL
                         THEN [@ EXCEPT ![M0.curBlock].instructions = Append(@, self)]
                         ELSE @,
                       !.log = Append(@, "Unhandled opcode")]
  IN  IF rid > 0 /\ rid < Len(M0.ids)
      THEN [M1 EXCEPT !.operations[self].id = rid, !.ids[rid + 1] = self]
      ELSE M1

\* the default case of the switch, M0 holding the new instruction already:
\* a warning is logged, the instruction's id is not read and nothing is
\* registered; the instruction joins the block curBlock points at
UnhandledOpcode(M0, buf, at) ==
  LET self == Len(M0.operations)
  IN  [M0 EXCEPT !.operations =
                   IF M0.curBlock # NULL
                   THEN [@ EXCEPT ![M0.curBlock].instructions = Append(@, self)]
                   ELSE @,
                 !.log = Append(@, "Unhandled opcode")]

\* a terminator case that makes the flow instruction and closes the block
\* without recording the instruction as the block's exit
ExitBlockUnrecorded(M0, buf, at) ==
  LET self == Len(M0.operations)
  IN  [M0 EXCEPT !.operations[self].isFlow = TRUE,
                 !.operations[self].targets =
                    IF Word(buf, at) % OpCodeMask = OpBranch
                    THEN <<Word(buf, at + 1)>> ELSE <<>>,
                 !.curBlock = NULL]

\* the cases OpReturn and OpBranch, M0 holding the new instruction already
\* and a block being open: the instruction becomes the exit of the block and
\* the block is closed
ExitBlock(M0, buf, at) ==
  LET self == Len(M0.operations)
  IN  [M0 EXCEPT !.operations[self].isFlow = TRUE,
                 !.operations[self].targets =
                    IF Word(buf, at) % OpCodeMask = OpBranch
                    THEN <<Word(buf, at + 1)>> ELSE <<>>,
                 !.operations[M0.curBlock].exitFlow = self,
                 !.curBlock = NULL]

\* the opcodes whose case dereferences curBlock
NeedsBlock(opcode) ==
  opcode \in {OpReturn, OpBranch, OpFNegate, OpFAdd, OpStore, OpCopyMemory}

\* what a read past the end of the caller's buffer gives: some word, or a trap
Trap == -1
BeyondBuffer == {0, 1, Trap}

\* spirv[i], the buffer being a bare pointer: `beyond` when i is past its end
ReadWord(buf, i, beyond) == IF i < Len(buf) THEN Word(buf, i) ELSE beyond

\* `op.op->access = spv::MemoryAccessMask(spirv[it+4])` of the case OpStore /
\* OpCopyMemory
StoreAccessWord(buf, at, beyond) == ReadWord(buf, at + 4, beyond)

\* `uint64_t hi = spirv[it+4]` of the case OpConstant, under `WordCount > 3`
ConstantUpperWord(buf, at, beyond) ==
  IF Word(buf, at) \div WordCountShift > 3 THEN ReadWord(buf, at + 4, beyond)
  ELSE 0

\* the switch of the structural pass for the instruction at buf[at], the new
\* instruction being allocated already: the module and the cursors
\* curFunc / curBlock it leaves
ParseOpcode(M, buf, at, beyond) ==
  LET WordCount == Word(buf, at) \div WordCountShift
      opcode    == Word(buf, at) % OpCodeMask
      self      == Len(M.operations) + 1
      op0       == [NewInstruction EXCEPT !.opcode = opcode]
      ops0      == Append(M.operations, op0)
      M0        == [M EXCEPT !.operations = ops0]
  IN
  CASE opcode = OpTypeFloat ->
         [M0 EXCEPT !.operations[self] =
                      [op0 EXCEPT !.isType = TRUE, !.typeKind = "Float",
                                  !.id = Word(buf, at + 1)],
                    !.ids[Word(buf, at + 1) + 1] = self]
    [] opcode = OpTypeInt ->
         [M0 EXCEPT !.operations[self] =
                      [op0 EXCEPT !.isType = TRUE,
                                  !.typeKind = IF Word(buf, at + 3) # 0
                                               THEN "SInt" ELSE "UInt",
                                  !.id = Word(buf, at + 1)],
                    !.ids[Word(buf, at + 1) + 1] = self]
    [] opcode = OpConstant ->
         LET g == GetByID(M.ids, ops0, M.log, Word(buf, at + 1))
             hi == ConstantUpperWord(buf, at, beyond)
         IN
         IF hi = Trap THEN [M0 EXCEPT !.fault = TRUE]
         ELSE
         [M0 EXCEPT !.operations =
                      [g.operations EXCEPT ![self] =
                         [op0 EXCEPT !.isConstant = TRUE, !.constType = g.ret,
                                     !.i32 = Word(buf, at + 3), !.hi = hi,
                                     !.id = Word(buf, at + 2)]],
                    !.ids = [g.ids EXCEPT ![Word(buf, at + 2) + 1] = self],
                    !.log = g.log]
    [] opcode = OpConstantComposite ->
         LET g == GetByID(M.ids, ops0, M.log, Word(buf, at + 1))
             r == GetArguments(g.ids, g.operations, g.log, buf, at + 3,
                               at + WordCount)
         IN
         [M0 EXCEPT !.operations =
                      [r.operations EXCEPT ![self] =
                         [op0 EXCEPT !.isConstant = TRUE, !.constType = g.ret,
                                     !.children = r.args,
                                     !.id = Word(buf, at + 2)]],
                    !.ids = [r.ids EXCEPT ![Word(buf, at + 2) + 1] = self],
                    !.log = r.log]
    [] opcode = OpTypeVector ->
         LET g == GetByID(M.ids, ops0, M.log, Word(buf, at + 2)) IN
         [M0 EXCEPT !.operations =
                      [g.operations EXCEPT ![self] =
                         [op0 EXCEPT !.isType = TRUE, !.typeKind = "Vector",
                                     !.baseType = g.ret,
                                     !.vectorSize = Word(buf, at + 3),
                                     !.id = Word(buf, at + 1)]],
                    !.ids = [g.ids EXCEPT ![Word(buf, at + 1) + 1] = self],
                    !.log = g.log]
    [] opcode = OpFunction ->
         LET g1 == GetByID(M.ids, ops0, M.log, Word(buf, at + 1))
             g2 == GetByID(g1.ids, g1.operations, g1.log, Word(buf, at + 4))
         IN
         [M0 EXCEPT !.operations =
                      [g2.operations EXCEPT ![self] =
                         [op0 EXCEPT !.isFunc = TRUE, !.id = Word(buf, at + 2)]],
                    !.ids = [g2.ids EXCEPT ![Word(buf, at + 2) + 1] = self],
                    !.log = g2.log,
                    !.curFunc = self]
    [] opcode = OpFunctionEnd ->
         [M0 EXCEPT !.curFunc = NULL]
    [] opcode = OpVariable ->
         LET g == GetByID(M.ids, ops0, M.log, Word(buf, at + 1))
             var == [op0 EXCEPT !.isVar = TRUE, !.varType = g.ret,
                                !.storage = Word(buf, at + 3),
                                !.id = Word(buf, at + 2)]
         IN
         [M0 EXCEPT !.operations =
                      IF M.curFunc # NULL
                      THEN [g.operations EXCEPT
                              ![self] = var,
                              ![M.curFunc].funcVariables = Append(@, self)]
                      ELSE [g.operations EXCEPT ![self] = var],
                    !.globals = IF M.curFunc # NULL THEN @ ELSE Append(@, self),
                    !.ids = [g.ids EXCEPT ![Word(buf, at + 2) + 1] = self],
                    !.log = g.log]
    [] opcode = OpLabel ->
         IF M.curFunc = NULL THEN [M0 EXCEPT !.fault = TRUE]
         ELSE
         [M0 EXCEPT !.operations =
                      [ops0 EXCEPT
                         ![self] = [op0 EXCEPT !.isBlock = TRUE,
                                               !.id = Word(buf, at + 1)],
                         ![M.curFunc].funcBlocks = Append(@, self)],
                    !.ids[Word(buf, at + 1) + 1] = self,
                    !.curBlock = self]
    [] NeedsBlock(opcode) /\ M.curBlock = NULL ->
         [M0 EXCEPT !.fault = TRUE]
    [] opcode \in {OpReturn, OpBranch} /\ M.curBlock # NULL ->
         ExitBlock(M0, buf, at)
    [] opcode \in {OpStore, OpCopyMemory} /\ M.curBlock # NULL ->
         LET r == GetArguments(M.ids, ops0, M.log, buf, at + 1, at + 3)
             word == IF WordCount > 3 THEN StoreAccessWord(buf, at, beyond) ELSE 0
         IN
         IF word = Trap THEN [M0 EXCEPT !.fault = TRUE]
         ELSE
         [M0 EXCEPT !.operations =
                      [r.operations EXCEPT
                         ![self] = [op0 EXCEPT !.isOp = TRUE,
                                               !.arguments = r.args,
                                               !.access = word],
                         ![M.curBlock].instructions = Append(@, self)],
                    !.ids = r.ids,
                    !.log = r.log]
    [] opcode \in {OpFNegate, OpFAdd} /\ M.curBlock # NULL ->
         LET g == GetByID(M.ids, ops0, M.log, Word(buf, at + 1))
             r == GetArguments(g.ids, g.operations, g.log, buf, at + 3,
                               at + WordCount)
         IN
         [M0 EXCEPT !.operations =
                      [r.operations EXCEPT
                         ![self] = [op0 EXCEPT !.isOp = TRUE, !.mathop = TRUE,
                                               !.arguments = r.args,
                                               !.id = Word(buf, at + 2)],
                         ![M.curBlock].instructions = Append(@, self)],
                    !.ids = [r.ids EXCEPT ![Word(buf, at + 2) + 1] = self],
                    !.log = r.log]
    [] OTHER -> UnhandledOpcode(M0, buf, at)

\* one iteration of the structural pass: the instruction at the cursor
ParseInstruction ==
  /\ parsePc = "pass1" /\ it < Len(spirv)
  /\ LET WordCount == Word(spirv, it) \div WordCountShift
         M == [operations |-> operations, ids |-> ids, log |-> diagnostics,
               globals |-> moduleGlobals, curFunc |-> curFunc,
               curBlock |-> curBlock, fault |-> FALSE]
     IN  \E beyond \in BeyondBuffer : \E R \in {ParseOpcode(M, spirv, it, beyond)} :
           /\ operations' = R.operations
           /\ ids' = R.ids
           /\ diagnostics' = R.log
           /\ moduleGlobals' = R.globals
           /\ curFunc' = R.curFunc
           /\ curBlock' = R.curBlock
           /\ parsePc' = IF R.fault THEN "fault" ELSE parsePc
           /\ it' = it + WordCount
  /\ UNCHANGED <<spirv, moduleVersion, generator, lookupId, lookupRet,
                 lookupHit>>
  /\ UNCHANGED notParseVars

\* the structural pass decodes an OpStore / OpCopyMemory that has the
\* optional operand
DecodesStoreWithAccess ==
  /\ parsePc = "pass1" /\ it < Len(spirv) /\ it' # it
  /\ Word(spirv, it) % WordCountShift \in {OpStore, OpCopyMemory}
  /\ Word(spirv, it) \div WordCountShift > 3
  /\ curBlock # NULL

\* C30: an OpStore or OpCopyMemory of word count > 3 records as its access
\* mask its own operand word at offset 3, and decoding it reads no word at or
\* past its word count (nothing of the next instruction, nothing past the
\* buffer).
C30_StoreAccessMask ==
  [][DecodesStoreWithAccess =>
       /\ parsePc' # "fault"
       /\ LET block == operations'[curBlock].instructions
              op == operations'[block[Len(block)]]
          IN  op.access = Word(spirv, it + 3)]_vars

\* a comparison that ranks the inputs first, then the outputs, then the
\* uniform classes
GroupRank(storage) ==
  CASE storage = StorageClassInput -> 0
    [] storage = StorageClassOutput -> 1
    [] OTHER -> 2

SortByGroupRank(ops, a, b) == GroupRank(ops[a].storage) < GroupRank(ops[b].storage)

\* SortByVarClass::operator()
SortByVarClass(ops, a, b) == ops[a].storage < ops[b].storage

\* the end of ParseSPIRV: the annotation pass finds none of its opcodes in the
\* modelled subset; the globals are sorted by storage class
ParseFinish ==
  /\ parsePc = "pass1" /\ it >= Len(spirv)
  /\ moduleGlobals' \in
       StdSort(moduleGlobals,
               {p \in (1 .. Len(moduleGlobals)) \X (1 .. Len(moduleGlobals)) :
                  SortByVarClass(operations, moduleGlobals[p[1]], moduleGlobals[p[2]])})
  /\ parsePc' = "parsed"
  /\ UNCHANGED <<spirv, it, moduleVersion, generator, ids, operations,
                 diagnostics, lookupId, lookupRet, lookupHit, curFunc, curBlock>>
  /\ UNCHANGED notParseVars

\* a caller of the parsed module looks an id up
LookupByID ==
  /\ parsePc = "parsed"
  /\ \E k \in 0 .. Len(ids) - 1 :
       LET g == GetByID(ids, operations, diagnostics, k) IN
       /\ lookupId' = k
       /\ lookupRet' = g.ret
       /\ lookupHit' = (ids[k + 1] # NULL)
       /\ ids' = g.ids
       /\ operations' = g.operations
       /\ diagnostics' = g.log
  /\ UNCHANGED <<parsePc, spirv, it, moduleVersion, generator, moduleGlobals,
                 curFunc, curBlock>>
  /\ UNCHANGED notParseVars

ParseNext == ParseHeader \/ ParseInstruction \/ ParseFinish \/ LookupByID

InSeqOf(x, seq) == \E k \in 1 .. Len(seq) : seq[k] = x

\* children[i]->u64 != children[0]->u64 of SPVConstant::GetIDName, negated
SameU64(ops, a, b) == ops[a].i32 = ops[b].i32 /\ ops[a].hi = ops[b].hi

\* SPVConstant::GetValString of a 32-bit unsigned scalar: "%u" of u32
GetValString(ops, c) == ToString(ops[c].i32)

RECURSIVE Channels(_)
\* one 'x' per component
Channels(n) == IF n = 0 THEN "" ELSE "x" \o Channels(n - 1)

RECURSIVE JoinNames(_, _, _)
\* the components' names separated by ", "
JoinNames(ops, cs, i) ==
  IF i > Len(cs) THEN ""
  ELSE GetValString(ops, cs[i])
         \o (IF i < Len(cs) THEN ", " ELSE "")
         \o JoinNames(ops, cs, i + 1)

\* the replicated form of a vector constant
ReplicatedName(ops, c) ==
  GetValString(ops, ops[c].children[1]) \o "." \o Channels(Len(ops[c].children))

\* SPVConstant::GetIDName
ConstantIDName(ops, c) ==
  LET cs == ops[c].children
      type == ops[ops[c].constType]
  IN
  IF type.typeKind # "Vector" THEN GetValString(ops, c)
  ELSE IF \A i \in 2 .. Len(cs) : SameU64(ops, cs[i], cs[1])
  THEN ReplicatedName(ops, c)
  ELSE "uint" \o ToString(type.vectorSize) \o "(" \o JoinNames(ops, cs, 1) \o ")"

VectorConstants ==
  {c \in 1 .. Len(operations) :
     operations[c].isConstant /\ operations[c].children # <<>>}

ScalarConstants ==
  {c \in 1 .. Len(operations) :
     operations[c].isConstant /\ operations[c].children = <<>>}

\* C25: a vector constant is rendered in the replicated form (the component's
\* value, a dot, one x per component) exactly when all its components have
\* the same value, whatever instruction follows each component's OpConstant;
\* a 32-bit OpConstant (word count 4) has a payload whose upper 32 bits are 0.
C25_ReplicatedVectorConstant ==
  parsePc = "parsed" =>
    /\ \A c \in VectorConstants :
         (ConstantIDName(operations, c) = ReplicatedName(operations, c))
           <=> (\A i \in 2 .. Len(operations[c].children) :
                  operations[operations[c].children[i]].i32
                    = operations[operations[c].children[1]].i32)
    /\ \A c \in ScalarConstants : operations[c].hi = 0

\* C3: a buffer whose magic or version word is rejected leaves an empty module
\* (no ids, no instruction allocated, no globals, module fields as constructed)
\* and a diagnostic has been logged.
C3_HeaderRejection ==
  parsePc = "rejected" =>
    /\ ids = <<>> /\ operations = <<>> /\ moduleGlobals = <<>>
    /\ moduleVersion = 0 /\ generator = 0
    /\ diagnostics # <<>>

\* C4: after a successful parse, every GetByID(k) with 0 <= k < bound returns a
\* non-null instruction carrying id k and registered under k: the one already
\* registered, with nothing allocated, if there is one; otherwise one new dummy
\* with opcode Unknown. (So a later GetByID(k) returns that same instruction.)
C4_LookupTotality ==
  [][(parsePc = "parsed" /\ parsePc' = "parsed") =>
       LET k == lookupId' IN
       /\ lookupRet' # NULL
       /\ lookupRet' \in 1 .. Len(operations')
       /\ operations'[lookupRet'].id = k
       /\ ids'[k + 1] = lookupRet'
       /\ ids[k + 1] # NULL =>
            (lookupRet' = ids[k + 1] /\ operations' = operations /\ ids' = ids)
       /\ ids[k + 1] = NULL =>
            /\ Len(operations') = Len(operations) + 1
            /\ operations'[lookupRet'].opcode = OpUnknown
            /\ \A j \in 1 .. Len(ids) : j # k + 1 => ids'[j] = ids[j]]_vars

\* C4 witness: id 0, which no instruction defines or mentions, has been looked
\* up a second time: the lookup found the dummy the first one registered
C4_Witness ==
  /\ parsePc = "parsed"
  /\ lookupId = 0 /\ lookupHit
  /\ operations[lookupRet].opcode = OpUnknown
  /\ \E k \in 1 .. Len(ids) : ids[k] # NULL /\ operations[ids[k]].opcode # OpUnknown

RECURSIVE InstructionStarts(_, _)
\* the cursor positions at which the instructions of the buffer start
InstructionStarts(buf, at) ==
  IF at >= Len(buf) THEN {}
  ELSE {at} \cup InstructionStarts(buf, at + Word(buf, at) \div WordCountShift)

\* the cursor is at an OpUndef, an opcode with a result id that the structural
\* pass has no case for, and the pass takes its step
AtUnhandledResult ==
  /\ parsePc = "pass1" /\ it < Len(spirv) /\ it' # it
  /\ Word(spirv, it) % OpCodeMask = OpUndef

\* id is the result id some OpUndef of the buffer declares
DeclaredByUnhandled(id) ==
  \E at \in InstructionStarts(spirv, 5) :
    Word(spirv, at) % OpCodeMask = OpUndef /\ Word(spirv, at + 2) = id

\* C11 as stated: at an opcode the structural pass does not handle, the
\* instruction allocated bears the declared result id and is registered under
\* it, it joins the current block if one is open, and parsing continues.
C11_UnknownOpcodeRegistered ==
  [][AtUnhandledResult =>
       LET self == Len(operations) + 1
           rid  == Word(spirv, it + 2)
       IN  /\ operations'[self].id = rid
           /\ ids'[rid + 1] = self
           /\ curBlock # NULL => InSeqOf(self, operations'[curBlock].instructions)
           /\ parsePc' = "pass1"]_vars

\* C11 as the code has it: at an opcode the structural pass does not handle, a
\* warning is logged and exactly one instruction is allocated, with id 0 and
\* registered under no id; it joins the current block if one is open and
\* parsing continues. No id slot and no argument ever points at it: a
\* reference to the declared id resolves to a dummy of opcode Unknown.
C11_UnknownOpcodeUnregistered ==
  /\ [][AtUnhandledResult =>
          LET self == Len(operations) + 1 IN
          /\ Len(operations') = self
          /\ operations'[self].opcode = OpUndef
          /\ operations'[self].id = 0
          /\ ids' = ids
          /\ diagnostics' = Append(diagnostics, "Unhandled opcode")
          /\ curBlock # NULL =>
               operations'[curBlock].instructions =
                 Append(operations[curBlock].instructions, self)
          /\ curBlock' = curBlock /\ curFunc' = curFunc
          /\ parsePc' = "pass1" /\ it' = it + 3]_vars
  /\ [](/\ \A k \in 1 .. Len(ids) :
             ids[k] # NULL => operations[ids[k]].opcode # OpUndef
        /\ \A p \in 1 .. Len(operations) :
             \A a \in 1 .. Len(operations[p].arguments) :
               LET q == operations[p].arguments[a] IN
               /\ operations[q].opcode # OpUndef
               /\ DeclaredByUnhandled(operations[q].id) =>
                    operations[q].opcode = OpUnknown)

\* C11 witness: parsing is over; a block holds an OpUndef, and a later
\* operation of the block has as its argument the dummy made for the id the
\* OpUndef declared
C11_Witness ==
  /\ parsePc = "parsed"
  /\ \E b, u, p \in 1 .. Len(operations) :
       /\ operations[b].isBlock
       /\ operations[u].opcode = OpUndef
       /\ InSeqOf(u, operations[b].instructions)
       /\ InSeqOf(p, operations[b].instructions)
       /\ u < p /\ operations[p].isOp
       /\ \E a \in 1 .. Len(operations[p].arguments) :
            LET q == operations[p].arguments[a] IN
            /\ operations[q].opcode = OpUnknown
            /\ DeclaredByUnhandled(operations[q].id)
            /\ u < q

\* C12: after parsing any module, forward references included, no two
\* instructions of the arena carry the same non-zero result id, and every
\* argument pointer of an operation is the instruction the id table maps the
\* argument's id to.
C12_ResultIdUniqueness ==
  parsePc = "parsed" =>
    /\ \A p, q \in 1 .. Len(operations) :
         (p # q /\ operations[p].id # 0) => operations[p].id # operations[q].id
    /\ \A p \in 1 .. Len(operations) :
         \A a \in 1 .. Len(operations[p].arguments) :
           LET q == operations[p].arguments[a] IN
           ids[operations[q].id + 1] = q

RECURSIVE ClosedInStream(_, _)
\* scanning the buffer from the instruction at `at` on: a recognised
\* terminator comes before the next OpLabel
ClosedInStream(buf, at) ==
  IF at >= Len(buf) THEN FALSE
  ELSE LET opcode == Word(buf, at) % OpCodeMask
       IN  IF opcode \in {OpReturn, OpBranch} THEN TRUE
           ELSE IF opcode = OpLabel THEN FALSE
           ELSE ClosedInStream(buf, at + Word(buf, at) \div WordCountShift)

\* the block with this id is closed by a recognised terminator in the buffer
TerminatedBlock(id) ==
  \E at \in InstructionStarts(spirv, 5) :
    /\ Word(spirv, at) % OpCodeMask = OpLabel
    /\ Word(spirv, at + 1) = id
    /\ ClosedInStream(spirv, at + 2)

\* C16 as stated: after ParseSPIRV every block of every function has a
\* non-null exitFlow; a function with a block that no recognised terminator
\* closes does not come out of the parse with a block whose exitFlow is null.
C16_BlockTerminationAlways ==
  parsePc = "parsed" =>
    \A b \in 1 .. Len(operations) :
      operations[b].isBlock => operations[b].exitFlow # NULL

\* C16 as the code has it: parsing never fails on a block; after ParseSPIRV a
\* block's exitFlow is non-null, and then a flow instruction, exactly when a
\* recognised terminator closed the block; a block that an unhandled
\* terminator (OpSwitch) ends keeps a null exitFlow and holds that instruction
\* among its ordinary instructions.
C16_BlockTermination ==
  /\ parsePc # "fault"
  /\ parsePc = "parsed" =>
       \A b \in 1 .. Len(operations) :
         operations[b].isBlock =>
           /\ operations[b].exitFlow # NULL <=> TerminatedBlock(operations[b].id)
           /\ operations[b].exitFlow # NULL =>
                operations[operations[b].exitFlow].isFlow
           /\ operations[b].exitFlow = NULL =>
                \E k \in 1 .. Len(operations[b].instructions) :
                  operations[operations[b].instructions[k]].opcode = OpSwitch

\* C16 witness: a parsed function of two blocks, the first ended by OpSwitch
\* and left with a null exitFlow, the second closed by a recognised terminator
C16_Witness ==
  /\ parsePc = "parsed"
  /\ \E b1, b2 \in 1 .. Len(operations) :
       /\ b1 < b2
       /\ operations[b1].isBlock /\ operations[b2].isBlock
       /\ operations[b1].exitFlow = NULL
       /\ operations[b2].exitFlow # NULL

\* the global variables the buffer declares, in declaration order
DeclaredGlobals ==
  {p \in 1 .. Len(operations) : operations[p].isVar}

IsPermutationOfGlobals ==
  /\ Len(moduleGlobals) = Cardinality(DeclaredGlobals)
  /\ \A p \in DeclaredGlobals : InSeqOf(p, moduleGlobals)

\* C13 as stated: after ParseSPIRV module.globals holds the declared globals,
\* all Input variables first, then all Output variables, then the uniform
\* classes, and variables of one storage class in their declaration order.
C13_GlobalOrderingGrouped ==
  parsePc = "parsed" =>
    /\ IsPermutationOfGlobals
    /\ \A i, j \in 1 .. Len(moduleGlobals) :
         i < j =>
           LET a == operations[moduleGlobals[i]]
               b == operations[moduleGlobals[j]]
           IN  /\ GroupRank(a.storage) <= GroupRank(b.storage)
               /\ a.storage = b.storage => moduleGlobals[i] < moduleGlobals[j]

\* C13 as the code has it: after ParseSPIRV module.globals holds the declared
\* globals in non-decreasing order of the numeric value of their storage
\* class (UniformConstant 0, Input 1, Uniform 2, Output 3).
C13_GlobalOrderingNumeric ==
  parsePc = "parsed" =>
    /\ IsPermutationOfGlobals
    /\ \A i, j \in 1 .. Len(moduleGlobals) :
         i < j => operations[moduleGlobals[i]].storage
                    <= operations[moduleGlobals[j]].storage

\* C13 witness: an Output variable declared before a Uniform one comes after
\* it in module.globals
C13_Witness ==
  /\ parsePc = "parsed"
  /\ Len(moduleGlobals) = 2
  /\ moduleGlobals[1] > moduleGlobals[2]
  /\ operations[moduleGlobals[1]].storage = StorageClassUniform
  /\ operations[moduleGlobals[2]].storage = StorageClassOutput

----------------------------------------------------------------------------
\* OpVectorShuffle

MaxShuffleLen == 4          \* longest selector list explored
MaxVectorSize == 4          \* largest source vector explored
\* 0xFFFFFFFF, the undefined selector: the largest value of a selector word.
\* TLC integers are 32-bit signed, so the all-ones word is the largest of those.
UndefComponent == 2147483647

Selectors(n) == (0 .. (2 * n - 1)) \cup {UndefComponent}

\* char swizzle[] = "xyzw_"; indexed from 0
swizzle == <<"x", "y", "z", "w", "_">>

RECURSIVE maxShuffle(_, _)
\* the loop computing maxShuffle: the maximum of the raw literals
maxShuffle(lits, i) ==
  IF i > Len(lits) THEN 0 ELSE Max2(lits[i], maxShuffle(lits, i + 1))

RECURSIVE ShuffleBody(_, _, _, _)
\* the "sane path" loop: literal i (1-based), lastvec carried along
ShuffleBody(n, lits, i, lastvec) ==
  IF i > Len(lits) THEN <<>>
  ELSE LET lit == lits[i]
           s   == IF lit = UndefComponent THEN 4
                  ELSE IF lit > n THEN lit - n ELSE lit
           vec == IF lit # UndefComponent /\ lit > n THEN 1 ELSE 0
           \* op->GetArg(ids, 0, arg): always argument 0
           seg == IF vec # lastvec
                  THEN (IF i > 1 THEN <<", ">> ELSE <<>>) \o <<"a", ".">>
                  ELSE <<>>
       IN  seg \o <<swizzle[s + 1]>> \o ShuffleBody(n, lits, i + 1, vec)

DisassembleVectorShuffle(n, lits, inl) ==
  (IF inl THEN <<>> ELSE <<"T id = ">>)
    \o <<"T", "(">>
    \o (IF maxShuffle(lits, 1) < 4 THEN ShuffleBody(n, lits, 1, -1) ELSE <<>>)
    \o <<")">>

ShufIdle ==
  /\ shufPc = "idle" /\ vectorSize = 0 /\ literals = <<>>
  /\ inlineOp = FALSE /\ ret = <<>>

ShufInit ==
  /\ shufPc = "ready"
  /\ vectorSize \in 2 .. MaxVectorSize
  /\ literals \in {l \in SeqsUpTo(Selectors(MaxVectorSize), MaxShuffleLen) :
                     Len(l) >= 1}
  /\ \A i \in 1 .. Len(literals) : literals[i] \in Selectors(vectorSize)
  /\ inlineOp \in BOOLEAN
  /\ ret = <<>>

RenderShuffle ==
  /\ shufPc = "ready"
  /\ ret' = DisassembleVectorShuffle(vectorSize, literals, inlineOp)
  /\ shufPc' = "done"
  /\ UNCHANGED <<vectorSize, literals, inlineOp>>
  /\ UNCHANGED notShufVars

\* The rendering the specification describes: selector s < n is component s of
\* a, s >= n is component s-n of b, undefined is "_", and consecutive selectors
\* of one source share a segment.
RECURSIVE ExpectedShuffle(_, _, _, _)
ExpectedShuffle(n, lits, i, lastsrc) ==
  IF i > Len(lits) THEN <<>>
  ELSE LET lit == lits[i]
           src == IF lit = UndefComponent
                  THEN (IF lastsrc = "" THEN "a" ELSE lastsrc)
                  ELSE IF lit >= n THEN "b" ELSE "a"
           c   == IF lit = UndefComponent THEN "_"
                  ELSE swizzle[(IF lit >= n THEN lit - n ELSE lit) + 1]
           seg == IF src # lastsrc
                  THEN (IF i > 1 THEN <<", ">> ELSE <<>>) \o <<src, ".">>
                  ELSE <<>>
       IN  seg \o <<c>> \o ExpectedShuffle(n, lits, i + 1, src)

\* C9: once an OpVectorShuffle has been rendered, the text is the type
\* constructor around the per-source swizzle segments: each selector s < n is
\* component s of a, each s >= n is component s-n of b, an undefined selector
\* is `_`, consecutive selectors of one source share a segment.
C9_ShuffleRendering ==
  shufPc = "done" =>
    ret = (IF inlineOp THEN <<>> ELSE <<"T id = ">>)
            \o <<"T", "(">> \o ExpectedShuffle(vectorSize, literals, 1, "")
            \o <<")">>

----------------------------------------------------------------------------
\* SPVModule::Disassemble: the per-function passes (inliner, redundant-label
\* sweep, control-flow rebuild)

MaxOps == 3         \* most instructions after the access chain of a block
MaxExtra == 2       \* most instructions added around the inout call pattern
MaxStmts == 2       \* most statements in one body of a generated function
MaxDepth == 2       \* deepest nesting of if/while in a generated function

NO_INLINE_COMPLEXITY == 3
tabSize == 2

\* template <typename T> bool erase_item(std::vector<T> &vec, const T &elem)
erase_item(vec, elem) ==
  IF \E k \in 1 .. Len(vec) : vec[k] = elem
  THEN LET k == CHOOSE k \in 1 .. Len(vec) :
                  vec[k] = elem /\ \A j \in 1 .. (k - 1) : vec[j] # elem
       IN  SubSeq(vec, 1, k - 1) \o SubSeq(vec, k + 1, Len(vec))
  ELSE vec

\* vec.erase(vec.begin() + k), k counted from 1
EraseAt(vec, k) == SubSeq(vec, 1, k - 1) \o SubSeq(vec, k + 1, Len(vec))

RECURSIVE LinearOrder(_, _, _)
\* the order in which `for b in func->blocks, for i in block->instructions`
\* visits the instructions of a function
LinearOrder(ops, blks, b) ==
  IF b > Len(blks) THEN <<>>
  ELSE ops[blks[b]].instructions \o LinearOrder(ops, blks, b + 1)

RECURSIVE ScanStores(_, _, _, _, _, _, _)
\* the scan of IsUnmodified for a load of a variable: TRUE unless a store to
\* var is met after from and before to
ScanStores(ops, lin, k, looking, from, to, var) ==
  IF k > Len(lin) THEN TRUE
  ELSE IF lin[k] = from THEN ScanStores(ops, lin, k + 1, TRUE, from, to, var)
  ELSE IF lin[k] = to THEN TRUE
  ELSE IF looking /\ ops[lin[k]].opcode = OpStore
                  /\ ops[lin[k]].arguments[1] = var THEN FALSE
  ELSE ScanStores(ops, lin, k + 1, looking, from, to, var)

RECURSIVE IsUnmodified(_, _, _, _)
IsUnmodified(ops, blks, from, to) ==
  IF ~ops[from].isOp THEN TRUE
  ELSE IF ops[from].opcode = OpLoad /\ ops[ops[from].arguments[1]].isVar
  THEN ScanStores(ops, LinearOrder(ops, blks, 1), 1, FALSE, from, to,
                  ops[from].arguments[1])
  ELSE \A k \in 1 .. Len(ops[from].arguments) :
         \/ ops[from].opcode = OpStore /\ k = 1
         \/ IsUnmodified(ops, blks, ops[from].arguments[k], to)

\* the complexity test with the one limit NO_INLINE_COMPLEXITY for every
\* consumer
TooComplexForAnyConsumer(ops, instr, arg) ==
  \/ ops[arg].complexity >= NO_INLINE_COMPLEXITY
  \/ /\ Len(ops[arg].arguments) > 2
     /\ ops[arg].opcode \notin {OpAccessChain, OpSelect, OpCompositeConstruct}

\* the two tests of the argument loop that make it `continue` for an
\* argument that is an operation
TooComplexToInline(ops, instr, arg) ==
  LET maxAllowedComplexity ==
        IF ops[instr].opcode = OpCompositeConstruct
        THEN (IF 2 < NO_INLINE_COMPLEXITY THEN 2 ELSE NO_INLINE_COMPLEXITY)
        ELSE NO_INLINE_COMPLEXITY
  IN  \/ ops[arg].complexity >= maxAllowedComplexity
      \/ /\ Len(ops[arg].arguments) > 2
         /\ ops[arg].opcode \notin {OpAccessChain, OpSelect, OpCompositeConstruct}

\* the purity test of the argument loop, asked for anything but a store's
\* destination
PurityGuard(ops, blks, instr, a, arg) ==
  (ops[instr].opcode # OpStore \/ a > 1) => IsUnmodified(ops, blks, arg, instr)

RECURSIVE InlineArguments(_, _, _, _, _)
\* the loop over instr->op->arguments; a counts from 1, bit a-1 of inlineArgs
\* S = [funcops, inlineArgs, maxcomplex]
InlineArguments(ops, blks, S, instr, a) ==
  IF a > Len(ops[instr].arguments) THEN S
  ELSE LET arg == ops[instr].arguments[a]
           skip == /\ ops[arg].isOp
                   /\ \/ TooComplexToInline(ops, instr, arg)
                      \/ ~PurityGuard(ops, blks, instr, a, arg)
           T == IF skip THEN S
                ELSE [funcops    |-> erase_item(S.funcops, arg),
                      inlineArgs |-> S.inlineArgs \cup {a - 1},
                      maxcomplex |-> IF ops[arg].isOp
                                     THEN Max2(ops[arg].complexity, S.maxcomplex)
                                     ELSE S.maxcomplex]
       IN  InlineArguments(ops, blks, T, instr, a + 1)

\* The state the loop body of the inliner works on:
\*   S = [operations, funcops, vars, ignore_items, crashed]
\* crashed records a null pointer dereference.

\* the argument loop and the complexity assignment that follows it
InlineOperation(S, blks, instr) ==
  LET ops == S.operations
      A == InlineArguments(ops, blks,
             [funcops |-> S.funcops, inlineArgs |-> ops[instr].inlineArgs,
              maxcomplex |-> 0], instr, 1)
      bump == /\ ops[instr].opcode \notin {OpStore, OpLoad, OpCompositeExtract}
              /\ A.inlineArgs # {}
  IN  [S EXCEPT !.funcops = A.funcops,
                !.operations[instr].inlineArgs = A.inlineArgs,
                !.operations[instr].complexity =
                    A.maxcomplex + (IF bump THEN 1 ELSE 0)]

\* "we try to merge away temp variables that are only used for a single store
\* then a single load later"
SingleStoreElision(S, blks, instr) ==
  LET ops == S.operations
      fo  == S.funcops
      ptr == ops[instr].arguments[1]
      stores == {o \in 1 .. Len(fo) : /\ ops[fo[o]].opcode = OpStore
                                      /\ ops[fo[o]].arguments[1] = ptr}
      prevstore == fo[CHOOSE o \in stores : TRUE]
      lin == LinearOrder(ops, blks, 1)
      otherload == \E k \in 1 .. Len(lin) :
                     /\ lin[k] # instr
                     /\ ops[lin[k]].opcode = OpLoad
                     /\ ops[lin[k]].arguments[1] = ptr
  IN  IF /\ ops[instr].opcode = OpLoad
         /\ Len(fo) > 1
         /\ Cardinality(stores) = 1
         /\ IsUnmodified(ops, blks, prevstore, instr)
         /\ ~otherload
      THEN [S EXCEPT !.operations[instr].complexity =
                         Max2(ops[instr].complexity, ops[prevstore].complexity),
                     !.vars = erase_item(S.vars, ptr),
                     !.funcops = erase_item(fo, prevstore),
                     !.operations[instr].arguments[1] = prevstore]
      ELSE S

\* "if we have a store from a temp ID, immediately following the op that
\* produced that temp ID, we can combine these trivially"
AdjacentStoreMerge(S, instr) ==
  LET ops == S.operations
      fo  == S.funcops
  IN  IF /\ ops[instr].opcode \in {OpStore, OpCompositeInsert}
         /\ Len(fo) > 1
         /\ ops[instr].arguments[2] = fo[Len(fo) - 1]
      THEN LET src == ops[instr].arguments[2]
           IN  [S EXCEPT !.funcops = erase_item(fo, src),
                         !.operations[instr].complexity =
                             IF ops[src].isOp
                             THEN Max2(ops[instr].complexity, ops[src].complexity)
                             ELSE ops[instr].complexity,
                         !.operations[instr].inlineArgs =
                             ops[instr].inlineArgs \cup {1}]
      ELSE S

RECURSIVE ScanUses(_, _, _, _, _, _, _, _, _)
\* The three search loops of the function-call handling: instructions
\* insts[j..hi] of the block, argument aa of each, looking for uses of key
\* (an id when byId, else an instruction pointer). A use by a wantOp
\* instruction is remembered in found = [inst, idx], a second one or a use by
\* anything else clears canReplace and stops the search.
ScanUses(ops, insts, j, hi, aa, key, byId, wantOp, found) ==
  IF j > hi THEN [canReplace |-> TRUE, inst |-> found.inst, idx |-> found.idx]
  ELSE
    LET si == insts[j]
        fail == [canReplace |-> FALSE, inst |-> found.inst, idx |-> found.idx]
    IN  IF ops[si].isOp /\ aa <= Len(ops[si].arguments)
        THEN LET x == ops[si].arguments[aa]
                 hit == IF byId THEN ops[x].id = key ELSE x = key
             IN  IF ~hit
                 THEN ScanUses(ops, insts, j, hi, aa + 1, key, byId, wantOp, found)
                 ELSE IF ops[si].opcode = wantOp /\ found.inst = NULL
                 THEN ScanUses(ops, insts, j, hi, aa + 1, key, byId, wantOp,
                               [inst |-> si, idx |-> j])
                 ELSE fail
        ELSE IF /\ ops[si].isFlow /\ ops[si].condition # NULL
                /\ (IF byId THEN ops[ops[si].condition].id = key
                            ELSE ops[si].condition = key)
        THEN fail
        ELSE ScanUses(ops, insts, j + 1, hi, 1, key, byId, wantOp, found)

\* the body of `for a in instr->op->arguments` of the function-call handling,
\* for argument a (counted from 1) of the call at insts[i]
CallParameter(S, insts, i, instr, a) ==
  LET ops == S.operations
      arg == ops[instr].arguments[a]
      none == [inst |-> NULL, idx |-> Len(insts) + 1]
      before == ScanUses(ops, insts, 1, i - 1, 1, ops[arg].id, TRUE, OpStore, none)
      after == IF before.canReplace
               THEN ScanUses(ops, insts, i + 1, Len(insts), 1, ops[arg].id, TRUE,
                             OpLoad, none)
               ELSE [canReplace |-> FALSE, inst |-> NULL, idx |-> none.idx]
      storeBefore == before.inst
      loadAfter == after.inst
      \* in parameter
      S1 == IF storeBefore # NULL /\ loadAfter = NULL
            THEN [S EXCEPT !.funcops = erase_item(S.funcops, storeBefore),
                           !.vars = erase_item(S.vars, arg),
                           !.operations[instr].arguments[a] =
                               ops[storeBefore].arguments[2]]
            ELSE S
      use == ScanUses(ops, insts, after.idx + 1, Len(insts), 1, loadAfter, FALSE,
                      OpStore, none)
      storeUse == use.inst
      src == ops[storeBefore].arguments[2]
      sameVar == /\ ops[src].opcode = OpLoad
                 /\ ops[ops[src].arguments[1]].id = ops[ops[storeUse].arguments[1]].id
  IN  IF ~(before.canReplace /\ after.canReplace) THEN S
      ELSE IF loadAfter = NULL THEN S1
      ELSE IF ~use.canReplace THEN S1
      \* storeUse->op dereferenced with storeUse == NULL
      ELSE IF storeUse = NULL /\ (storeBefore = NULL \/ ops[src].opcode = OpLoad)
      THEN [S1 EXCEPT !.crashed = TRUE]
      ELSE IF storeBefore # NULL /\ ~sameVar THEN S1
      ELSE [S1 EXCEPT !.funcops = IF storeBefore # NULL
                                  THEN erase_item(S1.funcops, storeBefore)
                                  ELSE S1.funcops,
                      !.ignore_items = S1.ignore_items \cup {storeUse},
                      !.vars = erase_item(S1.vars, arg),
                      !.operations[instr].arguments[a] = ops[storeUse].arguments[1]]

RECURSIVE CallParameters(_, _, _, _, _)
CallParameters(S, insts, i, instr, a) ==
  IF a > Len(S.operations[instr].arguments) \/ S.crashed THEN S
  ELSE CallParameters(CallParameter(S, insts, i, instr, a), insts, i, instr, a + 1)

\* the body of `for i in block->block->instructions`
InlineInstruction(S, blks, block, i) ==
  LET insts == S.operations[block].instructions
      instr == insts[i]
      S0 == IF instr \in S.ignore_items THEN S
            ELSE [S EXCEPT !.funcops = Append(S.funcops, instr)]
      S1 == InlineOperation(S0, blks, instr)
      S2 == SingleStoreElision(S1, blks, instr)
      S3 == AdjacentStoreMerge(S2, instr)
  IN  IF ~S.operations[instr].isOp THEN S0
      ELSE IF S.operations[instr].opcode = OpFunctionCall
      THEN CallParameters(S3, insts, i, instr, 1)
      ELSE S3

\* lines 1815-1832: the merge and exit instructions of a block
CloseBlock(S, idtab, block) ==
  LET ops == S.operations
      mergeFlow == ops[block].mergeFlow
      exitFlow == ops[block].exitFlow
      fo1 == IF mergeFlow # NULL THEN Append(S.funcops, mergeFlow) ELSE S.funcops
      fo2 == IF exitFlow # NULL /\ ops[exitFlow].condition # NULL
             THEN erase_item(fo1, ops[exitFlow].condition) ELSE fo1
      fo3 == IF exitFlow # NULL /\ ops[exitFlow].opcode = OpReturnValue
             THEN erase_item(fo2, idtab[ops[exitFlow].targets[1] + 1]) ELSE fo2
  IN  IF exitFlow # NULL THEN Append(fo3, exitFlow) ELSE fo1

----------------------------------------------------------------------------
\* Text. A string the code builds is the sequence of its tokens; a line of
\* disassembly is [indent, text].

Last(s) == s[Len(s)]
Pop(s) == SubSeq(s, 1, Len(s) - 1)

\* SPVInstruction::GetIDName, DefaultIDName
GetIDName(ops, p) ==
  IF ops[p].str # "" THEN <<ops[p].str>> ELSE <<"{", ToString(ops[p].id), "}">>

\* SPVTypeData::GetName of the one value type of the generated functions
TypeName == "float"

RECURSIVE DisassembleInstruction(_, _, _, _)
\* SPVOperation::GetArg; idx counted from 1
GetArg(ops, idtab, p, idx) ==
  IF (idx - 1) \in ops[p].inlineArgs
  THEN DisassembleInstruction(ops, idtab, ops[p].arguments[idx], TRUE)
  ELSE GetIDName(ops, ops[p].arguments[idx])

RECURSIVE AccessString(_, _, _, _)
\* the access string of an OpAccessChain into arrays: [idx] for a constant
\* index, [arg] for a dynamic one
AccessString(ops, idtab, p, k) ==
  IF k > Len(ops[p].arguments) THEN <<>>
  ELSE (IF ops[ops[p].arguments[k]].isConstant
        THEN <<"[", ToString(ops[ops[p].arguments[k]].i32), "]">>
        ELSE <<"[">> \o GetArg(ops, idtab, p, k) \o <<"]">>)
       \o AccessString(ops, idtab, p, k + 1)

RECURSIVE ArgumentNames(_, _, _)
ArgumentNames(ops, p, k) ==
  IF k > Len(ops[p].arguments) THEN <<>>
  ELSE GetIDName(ops, ops[p].arguments[k])
       \o (IF k < Len(ops[p].arguments) THEN <<",">> ELSE <<>>)
       \o ArgumentNames(ops, p, k + 1)

RECURSIVE CallArguments(_, _, _, _)
CallArguments(ops, idtab, p, k) ==
  IF k > Len(ops[p].arguments) THEN <<>>
  ELSE GetArg(ops, idtab, p, k)
       \o (IF k < Len(ops[p].arguments) THEN <<",">> ELSE <<>>)
       \o CallArguments(ops, idtab, p, k + 1)

\* SPVInstruction::Disassemble(ids, inl), for the opcodes of the
\* generated functions; the functions called return void
DisassembleInstruction(ops, idtab, p, inl) ==
  LET I == ops[p]
      decl == IF inl THEN <<>> ELSE <<TypeName>> \o GetIDName(ops, p) \o <<"=">>
      Paren(k) == IF ops[I.arguments[k]].isOp /\ ops[I.arguments[k]].mathop
                  THEN <<"(">> \o GetArg(ops, idtab, p, k) \o <<")">>
                  ELSE GetArg(ops, idtab, p, k)
  IN  CASE I.opcode \in {OpConstant, OpVariable, OpFunctionParameter} ->
             GetIDName(ops, p)
        [] I.opcode = OpLabel -> <<"Label", ToString(I.id), ":">>
        [] I.opcode = OpReturn -> <<"Return">>
        [] I.opcode = OpReturnValue ->
             <<"Return">> \o DisassembleInstruction(ops, idtab,
                                                    idtab[I.targets[1] + 1], TRUE)
        [] I.opcode = OpBranch -> <<"goto", "Label", ToString(I.targets[1])>>
        [] I.opcode = OpBranchConditional ->
             DisassembleInstruction(ops, idtab, I.condition, TRUE)
        [] I.opcode = OpSelectionMerge ->
             <<"SelectionMerge", "Label", ToString(I.targets[1])>>
        [] I.opcode = OpLoopMerge ->
             <<"LoopMerge", "Label", ToString(I.targets[1])>>
        [] I.opcode = OpStore ->
             IF inl THEN GetArg(ops, idtab, p, 2)
             ELSE GetArg(ops, idtab, p, 1)
                  \o (IF ops[I.arguments[2]].opcode = OpCompositeInsert
                         /\ 1 \in I.inlineArgs THEN <<>> ELSE <<"=">>)
                  \o GetArg(ops, idtab, p, 2)
        [] I.opcode = OpLoad -> decl \o GetArg(ops, idtab, p, 1)
        [] I.opcode = OpAccessChain ->
             IF ~ops[I.arguments[1]].isVar /\ ~ops[I.arguments[1]].isOp
             THEN decl \o GetArg(ops, idtab, p, 1) \o <<"....">>
             ELSE decl \o GetArg(ops, idtab, p, 1) \o AccessString(ops, idtab, p, 2)
        [] I.opcode = OpFunctionCall ->
             GetIDName(ops, idtab[I.funcCall + 1]) \o <<"(">>
               \o CallArguments(ops, idtab, p, 1) \o <<")">>
        [] I.opcode = OpFAdd -> decl \o Paren(1) \o <<"+">> \o Paren(2)
        [] I.opcode = OpCompositeConstruct ->
             decl \o <<TypeName, "(">> \o CallArguments(ops, idtab, p, 1)
               \o <<")">>
        \* an insert with the one literal index 0, into a vector
        [] I.opcode = OpCompositeInsert ->
             IF inl THEN <<".x", "=">> \o GetArg(ops, idtab, p, 2)
             ELSE <<TypeName>> \o GetIDName(ops, p) \o <<"=">>
                    \o GetArg(ops, idtab, p, 1) \o <<";">>
                    \o GetIDName(ops, p) \o <<".x", "=">>
                    \o GetArg(ops, idtab, p, 2)
        [] OTHER -> <<ToString(I.opcode), "(">> \o ArgumentNames(ops, p, 1) \o <<")">>

\* SPVTypeData::DeclareVariable(decorations, str)
DeclareVariable(ops, v) == <<TypeName, ops[v].str>>

Line(n, text) == [indent |-> n, text |-> text]

----------------------------------------------------------------------------
\* The redundant-label sweep

\* the same search without `if(l == b) continue;`
refdCountingItself(ops, fo, l, label) ==
  \E k \in 1 .. Len(fo) :
    /\ ops[fo[k]].isFlow
    /\ \E t \in 1 .. Len(ops[fo[k]].targets) : ops[fo[k]].targets[t] = label

\* the search "see if this label is a target anywhere else"; l counts from 1
refd(ops, fo, l, label) ==
  \E k \in 1 .. Len(fo) :
    /\ k # l
    /\ ops[fo[k]].isFlow
    /\ \E t \in 1 .. Len(ops[fo[k]].targets) : ops[fo[k]].targets[t] = label

\* funcops[l], funcops[l+1] is OpBranch L; OpLabel L
RedundantPair(ops, fo, l) ==
  /\ l < Len(fo)
  /\ ops[fo[l]].opcode = OpBranch
  /\ ops[fo[l + 1]].opcode = OpLabel
  /\ ops[fo[l]].targets[1] = ops[fo[l + 1]].id

\* one iteration of the sweep loop: the new funcops and l
SweepIteration(ops, fo, l) ==
  IF RedundantPair(ops, fo, l)
  THEN IF ~refd(ops, fo, l, ops[fo[l + 1]].id)
       THEN [funcops |-> EraseAt(EraseAt(fo, l), l), l |-> l]
       ELSE [funcops |-> EraseAt(fo, l), l |-> l]
  ELSE [funcops |-> fo, l |-> l + 1]

----------------------------------------------------------------------------
\* The control-flow rebuild
\*   R = [o, indent, selectionstack, elsestack, loopheadstack, loopstartstack,
\*        loopmergestack, varDeclared, funcDisassembly, m_Disassembly, stop,
\*        fault]
\* o counts from 1; stop is the `break` of the loop; fault records a null or
\* out-of-range access.

Emit(R, n, text) ==
  [R EXCEPT !.funcDisassembly = Append(R.funcDisassembly, Line(n, text))]

\* the store statement with the declaration merged into the first store
\* whatever the indent
StoreStatementMerged(R, ops, lvars, storeVar, lead, plain) ==
  LET hits == {v \in 1 .. Len(lvars) : v \notin R.varDeclared /\ lvars[v] = storeVar}
      v == CHOOSE v \in hits : TRUE
      R1 == [R EXCEPT !.varDeclared = R.varDeclared \cup hits]
  IN  IF hits # {}
      THEN Emit(R1, R.indent, DeclareVariable(ops, lvars[v]) \o lead)
      ELSE Emit(R1, R.indent, plain)

\* "declare variables at first use", then the store itself; lead is the text
\* that follows a merged declaration, plain the statement printed otherwise
StoreStatement(R, ops, lvars, storeVar, lead, plain) ==
  LET hits == {v \in 1 .. Len(lvars) : v \notin R.varDeclared /\ lvars[v] = storeVar}
      hoist == hits # {} /\ R.indent > tabSize
      merged == hits # {} /\ ~hoist
      v == CHOOSE v \in hits : TRUE
      R1 == [R EXCEPT !.varDeclared = R.varDeclared \cup hits,
                      !.m_Disassembly =
                          IF hoist
                          THEN Append(R.m_Disassembly,
                                      Line(R.indent,
                                           DeclareVariable(ops, lvars[v]) \o <<";">>))
                          ELSE R.m_Disassembly]
  IN  IF merged
      THEN Emit(R1, R.indent, DeclareVariable(ops, lvars[v]) \o lead)
      ELSE Emit(R1, R.indent, plain)

RebuildLabel(R, ops, idtab, p) ==
  LET id == ops[p].id
      blockExit == ops[p].exitFlow
  IN  IF R.elsestack # <<>> /\ Last(R.elsestack) = id
      THEN [Emit(R, R.indent - tabSize, <<"}", "else", "{">>)
              EXCEPT !.elsestack = Pop(R.elsestack)]
      ELSE IF R.selectionstack # <<>> /\ Last(R.selectionstack) = id
      THEN [Emit(R, R.indent - tabSize, <<"}">>)
              EXCEPT !.indent = R.indent - tabSize,
                     !.selectionstack = Pop(R.selectionstack)]
      ELSE IF R.loopmergestack # <<>> /\ Last(R.loopmergestack) = id
      THEN [Emit(R, R.indent - tabSize, <<"}">>)
              EXCEPT !.indent = R.indent - tabSize,
                     !.loopmergestack = Pop(R.loopmergestack)]
      ELSE IF R.loopstartstack # <<>> /\ Last(R.loopstartstack) = id
      THEN R
      ELSE IF ops[p].mergeFlow # NULL /\ ops[ops[p].mergeFlow].opcode = OpLoopMerge
      THEN IF \/ blockExit = NULL
              \/ ops[blockExit].condition = NULL
              \/ ops[blockExit].targets = <<>>
           THEN [R EXCEPT !.fault = TRUE]
           ELSE [Emit(R, R.indent,
                      <<"while", "(">>
                        \o DisassembleInstruction(ops, idtab,
                                                  ops[blockExit].condition, TRUE)
                        \o <<")", "{">>)
                   EXCEPT !.loopheadstack = Append(R.loopheadstack, id),
                          !.loopstartstack =
                              Append(R.loopstartstack, ops[blockExit].targets[1]),
                          !.loopmergestack =
                              Append(R.loopmergestack,
                                     ops[ops[p].mergeFlow].targets[1]),
                          !.indent = R.indent + tabSize]
      ELSE Emit(R, 0, DisassembleInstruction(ops, idtab, p, FALSE))

\* ub is the outcome of comparing with loopmergestack.back() when that stack
\* is empty
RebuildBranch(R, ops, idtab, fo, p, ub) ==
  LET target == ops[p].targets[1]
      atLoopEnd ==
        /\ R.o + 1 <= Len(fo)
        /\ ops[fo[R.o + 1]].opcode = OpLabel
        /\ IF R.loopmergestack = <<>> THEN ub
           ELSE ops[fo[R.o + 1]].id = Last(R.loopmergestack)
  IN  IF R.selectionstack # <<>> /\ target = Last(R.selectionstack)
      THEN R
      ELSE IF R.loopheadstack # <<>> /\ target = Last(R.loopheadstack)
      THEN IF atLoopEnd THEN R ELSE Emit(R, R.indent, <<"continue", ";">>)
      ELSE IF R.loopmergestack # <<>> /\ target = Last(R.loopmergestack)
      THEN Emit(R, R.indent, <<"break", ";">>)
      ELSE Emit(R, R.indent,
                DisassembleInstruction(ops, idtab, p, FALSE) \o <<";">>)

\* the selection merge without `indent += tabSize`
RebuildSelectionMergeFlat(R, ops, idtab, fo, p) ==
  LET merge == ops[p].targets[1]
      br == fo[R.o + 1]
  IN  IF R.o + 1 > Len(fo) THEN [R EXCEPT !.fault = TRUE]
      ELSE IF ~ops[br].isFlow \/ Len(ops[br].targets) < 2 \/ ops[br].condition = NULL
      THEN [R EXCEPT !.fault = TRUE]
      ELSE [Emit(R, R.indent,
                 <<"if", "(">> \o DisassembleInstruction(ops, idtab, br, FALSE)
                   \o <<")", "{">>)
              EXCEPT !.selectionstack = Append(R.selectionstack, merge),
                     !.elsestack = IF ops[br].targets[2] # merge
                                   THEN Append(R.elsestack, ops[br].targets[2])
                                   ELSE R.elsestack,
                     !.o = R.o + 2]

RebuildSelectionMerge(R, ops, idtab, fo, p) ==
  LET merge == ops[p].targets[1]
      br == fo[R.o + 1]
  IN  IF R.o + 1 > Len(fo) THEN [R EXCEPT !.fault = TRUE]
      ELSE IF ~ops[br].isFlow \/ Len(ops[br].targets) < 2 \/ ops[br].condition = NULL
      THEN [R EXCEPT !.fault = TRUE]
      ELSE [Emit(R, R.indent,
                 <<"if", "(">> \o DisassembleInstruction(ops, idtab, br, FALSE)
                   \o <<")", "{">>)
              EXCEPT !.selectionstack = Append(R.selectionstack, merge),
                     !.indent = R.indent + tabSize,
                     !.elsestack = IF ops[br].targets[2] # merge
                                   THEN Append(R.elsestack, ops[br].targets[2])
                                   ELSE R.elsestack,
                     \* o++ for the branch, o++ for the label taken to follow
                     !.o = R.o + 2]

\* "try to merge this load-hit-store construct": the OpCompositeInsert at
\* funcops[o] with the OpStore that follows it on the emit list
RebuildCompositeInsert(R, ops, idtab, fo, lvars, p) ==
  LET store == fo[R.o + 1]
      composite == ops[p].arguments[1]
      loadID == IF ops[composite].opcode = OpLoad
                THEN ops[ops[composite].arguments[1]].id ELSE 0
      storeVar == ops[store].arguments[1]
      next == [R EXCEPT !.o = R.o + 1]
  IN  IF loadID = ops[storeVar].id
      THEN StoreStatement(next, ops, lvars, storeVar,
             DisassembleInstruction(ops, idtab, p, TRUE) \o <<";">>,
             GetArg(ops, idtab, store, 1)
               \o DisassembleInstruction(ops, idtab, p, TRUE) \o <<";">>)
      ELSE StoreStatement(
             Emit(next, R.indent,
                  DisassembleInstruction(ops, idtab, p, FALSE) \o <<";">>),
             ops, lvars, storeVar,
             <<"=">> \o DisassembleInstruction(ops, idtab, store, TRUE) \o <<";">>,
             DisassembleInstruction(ops, idtab, store, FALSE) \o <<";">>)

\* one iteration of `for o in funcops`
RebuildIteration(R, ops, idtab, fo, lvars, ub) ==
  LET p == fo[R.o]
      R1 == CASE ops[p].opcode = OpLabel -> RebuildLabel(R, ops, idtab, p)
              [] ops[p].opcode = OpBranch -> RebuildBranch(R, ops, idtab, fo, p, ub)
              [] ops[p].opcode = OpLoopMerge -> [R EXCEPT !.o = R.o + 1]
              [] ops[p].opcode = OpSelectionMerge ->
                   RebuildSelectionMerge(R, ops, idtab, fo, p)
              [] /\ ops[p].opcode = OpCompositeInsert /\ R.o + 1 <= Len(fo)
                 /\ ops[fo[R.o + 1]].opcode = OpStore ->
                   RebuildCompositeInsert(R, ops, idtab, fo, lvars, p)
              [] ops[p].opcode = OpReturn /\ R.o = Len(fo) ->
                   [R EXCEPT !.stop = TRUE]
              [] ops[p].opcode = OpStore ->
                   StoreStatement(R, ops, lvars, ops[p].arguments[1],
                     <<"=">> \o DisassembleInstruction(ops, idtab, p, TRUE) \o <<";">>,
                     DisassembleInstruction(ops, idtab, p, FALSE) \o <<";">>)
              [] OTHER ->
                   Emit(R, R.indent,
                        DisassembleInstruction(ops, idtab, p, FALSE) \o <<";">>)
  IN  IF R1.stop \/ R1.fault THEN R1
      \* funcops[o]->line = (int)o
      ELSE IF R1.o > Len(fo) THEN [R1 EXCEPT !.fault = TRUE]
      ELSE [R1 EXCEPT !.o = R1.o + 1]

----------------------------------------------------------------------------
\* Disassemble as a state machine, for one function of the module

DisIdle ==
  /\ disPc = "idle" /\ blocks = <<>> /\ variables = <<>>
  /\ funcVars = <<>> /\ funcops = <<>> /\ ignore_items = {}
  /\ blockIdx = 0 /\ instIdx = 0 /\ sweepIdx = 0 /\ rebuildIdx = 0
  /\ indent = 0 /\ selectionstack = <<>> /\ elsestack = <<>>
  /\ loopheadstack = <<>> /\ loopstartstack = <<>> /\ loopmergestack = <<>>
  /\ varDeclared = {} /\ funcDisassembly = <<>> /\ m_Disassembly = <<>>
  /\ run = 0 /\ firstRun = <<>>

\* the locals of Disassemble when the loop over the blocks is entered
DisStart ==
  /\ disPc = "block"
  /\ funcVars = variables /\ funcops = <<>> /\ ignore_items = {}
  /\ blockIdx = 1 /\ instIdx = 0 /\ sweepIdx = 0 /\ rebuildIdx = 0
  /\ indent = 0 /\ selectionstack = <<>> /\ elsestack = <<>>
  /\ loopheadstack = <<>> /\ loopstartstack = <<>> /\ loopmergestack = <<>>
  /\ varDeclared = {} /\ funcDisassembly = <<>> /\ m_Disassembly = <<>>
  /\ run = 1 /\ firstRun = <<>>

rebuildVars == <<rebuildIdx, indent, selectionstack, elsestack, loopheadstack,
                 loopstartstack, loopmergestack, varDeclared, funcDisassembly,
                 m_Disassembly>>

\* `for b in func->blocks`: the label, and a fresh ignore_items; a function
\* without blocks leaves the loop at once
BeginBlock ==
  /\ disPc = "block"
  /\ IF blockIdx > Len(blocks)
     THEN /\ disPc' = "sweep" /\ sweepIdx' = 1
          /\ UNCHANGED <<funcops, ignore_items, instIdx>>
     ELSE /\ funcops' = IF blockIdx > 1 THEN Append(funcops, blocks[blockIdx])
                        ELSE funcops
          /\ ignore_items' = {}
          /\ instIdx' = 1
          /\ disPc' = "instr"
          /\ UNCHANGED sweepIdx
  /\ UNCHANGED <<blocks, variables, funcVars, blockIdx, run, firstRun>>
  /\ UNCHANGED rebuildVars
  /\ UNCHANGED <<moduleVars, notDisVars>>

\* one instruction of the block through the inliner
InlineInstr ==
  /\ disPc = "instr"
  /\ instIdx <= Len(operations[blocks[blockIdx]].instructions)
  /\ LET S == InlineInstruction(
                [operations |-> operations, funcops |-> funcops,
                 vars |-> funcVars, ignore_items |-> ignore_items,
                 crashed |-> FALSE],
                blocks, blocks[blockIdx], instIdx)
     IN  /\ operations' = S.operations
         /\ funcops' = S.funcops
         /\ funcVars' = S.vars
         /\ ignore_items' = S.ignore_items
         /\ disPc' = IF S.crashed THEN "fault" ELSE "instr"
  /\ instIdx' = instIdx + 1
  /\ UNCHANGED <<blocks, variables, blockIdx, sweepIdx, run, firstRun>>
  /\ UNCHANGED rebuildVars
  /\ UNCHANGED <<moduleVersion, generator, ids, moduleGlobals, notDisVars>>

\* the end of a block: its merge and exit instructions
EndBlock ==
  /\ disPc = "instr"
  /\ instIdx > Len(operations[blocks[blockIdx]].instructions)
  /\ funcops' = CloseBlock([operations |-> operations, funcops |-> funcops],
                           ids, blocks[blockIdx])
  /\ blockIdx' = blockIdx + 1
  /\ disPc' = IF blockIdx = Len(blocks) THEN "sweep" ELSE "block"
  /\ sweepIdx' = 1
  /\ UNCHANGED <<blocks, variables, funcVars, ignore_items, instIdx, run, firstRun>>
  /\ UNCHANGED rebuildVars
  /\ UNCHANGED <<moduleVars, notDisVars>>

MaxOverrun == 2     \* most reads past an empty funcops that are followed

\* one iteration of "find redundant branch/label pairs"; with an empty
\* funcops the bound funcops.size()-1 wraps and funcops[l] is read past the
\* end: the read traps, or gives something that is not a branch and the loop
\* goes on
SweepStep ==
  /\ disPc = "sweep"
  /\ sweepIdx < Len(funcops) \/ funcops = <<>>
  /\ IF funcops = <<>>
     THEN /\ \/ disPc' = "fault" /\ UNCHANGED sweepIdx
             \/ /\ sweepIdx <= MaxOverrun
                /\ disPc' = "sweep" /\ sweepIdx' = sweepIdx + 1
          /\ UNCHANGED funcops
     ELSE LET N == SweepIteration(operations, funcops, sweepIdx)
          IN  funcops' = N.funcops /\ sweepIdx' = N.l /\ disPc' = "sweep"
  /\ UNCHANGED <<blocks, variables, funcVars, ignore_items, blockIdx, instIdx,
                 run, firstRun>>
  /\ UNCHANGED rebuildVars
  /\ UNCHANGED <<moduleVars, notDisVars>>

\* lines 1885-1913: the locals of the rebuild loop
BeginRebuild ==
  /\ disPc = "sweep"
  /\ funcops # <<>> /\ sweepIdx >= Len(funcops)
  /\ disPc' = "rebuild"
  /\ rebuildIdx' = 1
  /\ indent' = tabSize
  /\ varDeclared' = {}
  /\ selectionstack' = <<>> /\ elsestack' = <<>>
  /\ loopheadstack' = <<>> /\ loopstartstack' = <<>> /\ loopmergestack' = <<>>
  /\ funcDisassembly' = <<>>
  /\ UNCHANGED <<blocks, variables, funcVars, funcops, ignore_items, blockIdx,
                 instIdx, sweepIdx, m_Disassembly, run, firstRun>>
  /\ UNCHANGED <<moduleVars, notDisVars>>

\* one iteration of the rebuild loop; its `break` leaves the loop
RebuildStep ==
  /\ disPc = "rebuild"
  /\ rebuildIdx <= Len(funcops)
  /\ \E ub \in BOOLEAN :
       LET R == RebuildIteration(
                  [o |-> rebuildIdx, indent |-> indent,
                   selectionstack |-> selectionstack, elsestack |-> elsestack,
                   loopheadstack |-> loopheadstack,
                   loopstartstack |-> loopstartstack,
                   loopmergestack |-> loopmergestack,
                   varDeclared |-> varDeclared,
                   funcDisassembly |-> funcDisassembly,
                   m_Disassembly |-> m_Disassembly,
                   stop |-> FALSE, fault |-> FALSE],
                  operations, ids, funcops, funcVars, ub)
       IN  /\ rebuildIdx' = IF R.stop THEN Len(funcops) + 1 ELSE R.o
           /\ indent' = R.indent
           /\ selectionstack' = R.selectionstack
           /\ elsestack' = R.elsestack
           /\ loopheadstack' = R.loopheadstack
           /\ loopstartstack' = R.loopstartstack
           /\ loopmergestack' = R.loopmergestack
           /\ varDeclared' = R.varDeclared
           /\ funcDisassembly' = R.funcDisassembly
           /\ m_Disassembly' = R.m_Disassembly
           /\ disPc' = IF R.fault THEN "fault" ELSE "rebuild"
  /\ UNCHANGED <<blocks, variables, funcVars, funcops, ignore_items, blockIdx,
                 instIdx, sweepIdx, run, firstRun>>
  /\ UNCHANGED <<moduleVars, notDisVars>>

\* lines 2195-2199: the function's text joins the module's
FinishFunction ==
  /\ disPc = "rebuild"
  /\ rebuildIdx > Len(funcops)
  /\ m_Disassembly' = m_Disassembly \o funcDisassembly \o <<Line(0, <<"}">>)>>
  /\ disPc' = "done"
  /\ UNCHANGED <<blocks, variables, funcVars, funcops, ignore_items, blockIdx,
                 instIdx, sweepIdx, rebuildIdx, indent, selectionstack,
                 elsestack, loopheadstack, loopstartstack, loopmergestack,
                 varDeclared, funcDisassembly, run, firstRun>>
  /\ UNCHANGED <<moduleVars, notDisVars>>

\* the annotations the inliner leaves on the operations
Annotations(ops) ==
  [p \in 1 .. Len(ops) |->
     [inlineArgs |-> ops[p].inlineArgs, complexity |-> ops[p].complexity]]

\* Disassemble() called again on the module it has already disassembled
DisassembleAgain ==
  /\ disPc = "done"
  /\ run = 1
  /\ run' = 2
  /\ firstRun' = Annotations(operations)
  /\ disPc' = "block"
  /\ funcVars' = variables /\ funcops' = <<>> /\ ignore_items' = {}
  /\ blockIdx' = 1 /\ instIdx' = 0 /\ sweepIdx' = 0 /\ rebuildIdx' = 0
  /\ indent' = 0 /\ selectionstack' = <<>> /\ elsestack' = <<>>
  /\ loopheadstack' = <<>> /\ loopstartstack' = <<>> /\ loopmergestack' = <<>>
  /\ varDeclared' = {} /\ funcDisassembly' = <<>> /\ m_Disassembly' = <<>>
  /\ UNCHANGED <<blocks, variables>>
  /\ UNCHANGED <<moduleVars, notDisVars>>

DisNext ==
  \/ BeginBlock \/ InlineInstr \/ EndBlock \/ SweepStep \/ BeginRebuild
  \/ RebuildStep \/ FinishFunction \/ DisassembleAgain

----------------------------------------------------------------------------
\* Generated modules. The instructions are the records ParseSPIRV builds for
\* them: an operation's arguments are instruction pointers, a flow
\* instruction's targets are ids.

MkVariable(id, name) ==
  [NewInstruction EXCEPT !.opcode = OpVariable, !.id = id, !.str = name,
                         !.isVar = TRUE]
MkConstant(id, name, value) ==
  [NewInstruction EXCEPT !.opcode = OpConstant, !.id = id, !.str = name,
                         !.isConstant = TRUE, !.i32 = value]
MkFunction(id, name) ==
  [NewInstruction EXCEPT !.opcode = OpFunction, !.id = id, !.str = name,
                         !.isFunc = TRUE]
MkOperation(opcode, id, args) ==
  [NewInstruction EXCEPT !.opcode = opcode, !.id = id, !.isOp = TRUE,
                         !.arguments = args, !.mathop = (opcode = OpFAdd)]
MkCall(id, callee, args) ==
  [MkOperation(OpFunctionCall, id, args) EXCEPT !.funcCall = callee]
MkFlow(opcode, cond, targets) ==
  [NewInstruction EXCEPT !.opcode = opcode, !.isFlow = TRUE,
                         !.condition = cond, !.targets = targets]
MkLabel(id, insts, merge, exit) ==
  [NewInstruction EXCEPT !.opcode = OpLabel, !.id = id, !.isBlock = TRUE,
                         !.instructions = insts, !.mergeFlow = merge,
                         !.exitFlow = exit]

\* module.ids for a sequence of instructions: slot id+1 points at the
\* instruction of that id
IdTable(ops, bound) ==
  [k \in 1 .. bound |->
     IF \E p \in 1 .. Len(ops) : ops[p].id = k - 1 /\ k > 1
     THEN CHOOSE p \in 1 .. Len(ops) : ops[p].id = k - 1
     ELSE NULL]

\* ---- functions of one block: v, t local variables, c a constant, f the
\* function called, then the block; an instruction's id is its pointer
PtrV == 1
PtrT == 2
PtrC == 3
PtrF == 4
PtrEntry == 5

Prelude ==
  <<MkVariable(PtrV, "v"), MkVariable(PtrT, "t"), MkConstant(PtrC, "c", 0),
    MkFunction(PtrF, "f")>>

\* the instructions that can follow the body `prefix`, whose first
\* instruction has pointer PtrEntry + 1
NextInstructions(prefix) ==
  LET at(k) == PtrEntry + k
      self == at(Len(prefix) + 1)
      pointers == {PtrV, PtrT}
                    \cup {at(k) : k \in {j \in 1 .. Len(prefix) :
                                           prefix[j].opcode = OpAccessChain}}
      values == {PtrC}
                  \cup {at(k) : k \in {j \in 1 .. Len(prefix) :
                                         prefix[j].opcode \in {OpLoad, OpFAdd}}}
  IN  {MkOperation(OpLoad, self, <<p>>) : p \in pointers}
        \cup {MkOperation(OpStore, 0, <<p, x>>) : p \in pointers, x \in values}
        \cup {MkOperation(OpFAdd, self, <<x, PtrC>>) : x \in values}
        \cup {MkOperation(OpCompositeConstruct, self, <<x, PtrC>>) : x \in values}
        \cup {MkCall(self, PtrF, <<x>>) : x \in {PtrT} \cup values}

\* a block begins with the access chain v[c], or without one
BodyStarts == {<<>>, <<MkOperation(OpAccessChain, PtrEntry + 1, <<PtrV, PtrC>>)>>}

RECURSIVE Bodies(_, _)
\* the bodies that add exactly n instructions to start
Bodies(start, n) ==
  IF n = 0 THEN {start}
  ELSE UNION {{Append(body, x) : x \in NextInstructions(body)} :
                body \in Bodies(start, n - 1)}

\* <all instructions of a function with the one block `body`>
OneBlockModule(body) ==
  LET n == Len(body)
  IN  Prelude
        \o <<MkLabel(PtrEntry, [k \in 1 .. n |-> PtrEntry + k], NULL,
                     PtrEntry + n + 1)>>
        \o body
        \o <<MkFlow(OpReturn, NULL, <<>>)>>

\* the state after ParseSPIRV of a module holding the function of one block
OneBlockFunction(body) ==
  \E ops \in {OneBlockModule(body)} :
    /\ operations = ops
    /\ ids = IdTable(ops, PtrEntry + Len(body) + 1)
    /\ moduleVersion = Version /\ generator = 0 /\ moduleGlobals = <<>>
    /\ blocks = <<PtrEntry>>
    /\ variables = <<PtrV, PtrT>>

\* a function without blocks: OpFunction, then OpFunctionEnd
EmptyFunction ==
  \E ops \in {Prelude} :
    /\ operations = ops
    /\ ids = IdTable(ops, PtrEntry)
    /\ moduleVersion = Version /\ generator = 0 /\ moduleGlobals = <<>>
    /\ blocks = <<>>
    /\ variables = <<>>

InlineInit ==
  /\ \/ \E start \in BodyStarts : \E n \in 1 .. MaxOps :
          \E body \in Bodies(start, n) : OneBlockFunction(body)
     \/ EmptyFunction
  /\ DisStart

\* ---- functions of one block that insert into a composite: loads of v and
\* t, inserts of c into a loaded value, stores, and additions
MaxInsertOps == 3   \* most instructions of such a block

\* ParseSPIRV, case OpCompositeInsert: arguments = <<composite, object>>,
\* "never combine composite insert"
MkInsert(id, composite, object) ==
  [MkOperation(OpCompositeInsert, id, <<composite, object>>)
     EXCEPT !.complexity = 100]

InsertInstructions(prefix) ==
  LET at(k) == PtrEntry + k
      self == at(Len(prefix) + 1)
      loads == {at(k) : k \in {j \in 1 .. Len(prefix) : prefix[j].opcode = OpLoad}}
      inserts == {at(k) : k \in {j \in 1 .. Len(prefix) :
                                   prefix[j].opcode = OpCompositeInsert}}
  IN  {MkOperation(OpLoad, self, <<p>>) : p \in {PtrV, PtrT}}
        \cup {MkInsert(self, x, PtrC) : x \in loads}
        \cup {MkOperation(OpStore, 0, <<p, x>>) :
                p \in {PtrV, PtrT}, x \in {PtrC} \cup inserts}
        \cup {MkOperation(OpFAdd, self, <<x, PtrC>>) : x \in inserts}

RECURSIVE InsertBodies(_, _)
\* the bodies that add exactly n instructions to start
InsertBodies(start, n) ==
  IF n = 0 THEN {start}
  ELSE UNION {{Append(body, x) : x \in InsertInstructions(body)} :
                body \in InsertBodies(start, n - 1)}

InsertInit ==
  /\ \E n \in 1 .. MaxInsertOps :
       \E body \in InsertBodies(<<>>, n) : OneBlockFunction(body)
  /\ DisStart

\* ---- the inout call: Store t, (Load v); FunctionCall f(t); Store v, (Load t)
\* in one block, with up to MaxExtra more instructions that do not use t
InoutPattern == <<"L1", "S1", "CALL", "L2", "S2">>
ExtraItems == {"LoadV", "StoreVC", "FAddCC"}

RECURSIVE Interleavings(_, _)
\* the item sequences that hold the pattern items from j on, in order, and at
\* most n extra items anywhere
Interleavings(j, n) ==
  (IF j > Len(InoutPattern) THEN {<<>>}
   ELSE {<<InoutPattern[j]>> \o rest : rest \in Interleavings(j + 1, n)})
  \cup (IF n = 0 THEN {}
        ELSE {<<x>> \o rest : x \in ExtraItems, rest \in Interleavings(j, n - 1)})

\* the instructions of an item sequence
InoutBody(items) ==
  LET at(k) == PtrEntry + k
      posOf(name) == CHOOSE k \in 1 .. Len(items) : items[k] = name
  IN  [k \in 1 .. Len(items) |->
         CASE items[k] = "L1" -> MkOperation(OpLoad, at(k), <<PtrV>>)
           [] items[k] = "S1" -> MkOperation(OpStore, 0, <<PtrT, at(posOf("L1"))>>)
           [] items[k] = "CALL" -> MkCall(at(k), PtrF, <<PtrT>>)
           [] items[k] = "L2" -> MkOperation(OpLoad, at(k), <<PtrT>>)
           [] items[k] = "S2" -> MkOperation(OpStore, 0, <<PtrV, at(posOf("L2"))>>)
           [] items[k] = "LoadV" -> MkOperation(OpLoad, at(k), <<PtrV>>)
           [] items[k] = "StoreVC" -> MkOperation(OpStore, 0, <<PtrV, PtrC>>)
           [] items[k] = "FAddCC" -> MkOperation(OpFAdd, at(k), <<PtrC, PtrC>>)]

InoutInit ==
  /\ \E items \in Interleavings(1, MaxExtra) : OneBlockFunction(InoutBody(items))
  /\ DisStart

\* ---- functions of structured control flow. A statement is [k, a, e]:
\* "split" ends the block with a branch to the next one; "if", "ifelse" and
\* "while" have the body a (and the else body e) and are laid out as glslang
\* lays them out; "ifnot" is a selection whose true target is its merge
\* block and whose body a is the false block; "break", "continue" and
\* "return" end the block.
Stmt(k, a, e) == [k |-> k, a |-> a, e |-> e]

SimpleStmts(inLoop) ==
  {Stmt(k, <<>>, <<>>) :
     k \in {"split", "return"} \cup (IF inLoop THEN {"break", "continue"} ELSE {})}

RECURSIVE Stmts(_, _)
\* the statements nested at most d deep; a nested body has at most one
Stmts(d, inLoop) ==
  IF d = 0 THEN SimpleStmts(inLoop)
  ELSE LET bodies == {<<>>} \cup {<<x>> : x \in Stmts(d - 1, inLoop)}
           loopBodies == {<<>>} \cup {<<x>> : x \in Stmts(d - 1, TRUE)}
       IN  SimpleStmts(inLoop)
             \cup {Stmt("if", a, <<>>) : a \in bodies}
             \cup {Stmt("ifelse", a, e) : a \in bodies, e \in bodies}
             \cup {Stmt("ifnot", a, <<>>) : a \in bodies}
             \cup {Stmt("while", a, <<>>) : a \in loopBodies}

\* the function bodies: one statement of full depth, or up to MaxStmts
\* shallower ones of which only the last may end the block
FunctionBodies ==
  {<<x>> : x \in Stmts(MaxDepth, FALSE)}
    \cup {body \in SeqsUpTo(Stmts(MaxDepth - 1, FALSE), MaxStmts) :
            \A j \in 1 .. (Len(body) - 1) :
              body[j].k \notin {"return", "break", "continue"}}

\* The layout state: the blocks closed so far, the label of the open block
\* (0 if none), the next unused id, the header and merge block of the
\* enclosing loop, and the variables the open block stores to so far.
CloseWith(L, mergeOp, mergeTarget, exitOp, exitTargets) ==
  IF L.cur = 0 THEN L
  ELSE [L EXCEPT !.closed = Append(L.closed,
                    [label |-> L.cur, mergeOp |-> mergeOp,
                     mergeTarget |-> mergeTarget, exitOp |-> exitOp,
                     exitTargets |-> exitTargets, stores |-> L.stores]),
                 !.cur = 0, !.stores = <<>>]

\* a function that stores holds, after the variable v, the variable w it
\* stores to and the constant k it stores
PtrW == 2
PtrK == 3

RECURSIVE LayoutBody(_, _, _)
RECURSIVE LayoutStmt(_, _)
LayoutStmt(L, x) ==
  LET n == L.next
  IN  CASE x.k = "split" ->
             [CloseWith(L, 0, 0, OpBranch, <<n>>) EXCEPT !.cur = n, !.next = n + 1]
        [] x.k = "if" ->
             LET head == CloseWith(L, OpSelectionMerge, n + 1,
                                   OpBranchConditional, <<n, n + 1>>)
                 body == LayoutBody([head EXCEPT !.cur = n, !.next = n + 2], x.a, 1)
             IN  [CloseWith(body, 0, 0, OpBranch, <<n + 1>>) EXCEPT !.cur = n + 1]
        [] x.k = "ifelse" ->
             LET head == CloseWith(L, OpSelectionMerge, n + 2,
                                   OpBranchConditional, <<n, n + 1>>)
                 thn == LayoutBody([head EXCEPT !.cur = n, !.next = n + 3], x.a, 1)
                 thnEnd == CloseWith(thn, 0, 0, OpBranch, <<n + 2>>)
                 els == LayoutBody([thnEnd EXCEPT !.cur = n + 1], x.e, 1)
             IN  [CloseWith(els, 0, 0, OpBranch, <<n + 2>>) EXCEPT !.cur = n + 2]
        [] x.k = "ifnot" ->
             LET head == CloseWith(L, OpSelectionMerge, n + 1,
                                   OpBranchConditional, <<n + 1, n>>)
                 body == LayoutBody([head EXCEPT !.cur = n, !.next = n + 2], x.a, 1)
             IN  [CloseWith(body, 0, 0, OpBranch, <<n + 1>>) EXCEPT !.cur = n + 1]
        [] x.k = "while" ->
             LET pre == CloseWith(L, 0, 0, OpBranch, <<n>>)
                 head == CloseWith([pre EXCEPT !.cur = n], OpLoopMerge, n + 2,
                                   OpBranchConditional, <<n + 1, n + 2>>)
                 body == LayoutBody([head EXCEPT !.cur = n + 1, !.next = n + 3,
                                                 !.head = n, !.merge = n + 2],
                                    x.a, 1)
             IN  [CloseWith(body, 0, 0, OpBranch, <<n>>)
                    EXCEPT !.cur = n + 2, !.head = L.head, !.merge = L.merge]
        [] x.k = "break" -> CloseWith(L, 0, 0, OpBranch, <<L.merge>>)
        [] x.k = "continue" -> CloseWith(L, 0, 0, OpBranch, <<L.head>>)
        [] x.k = "return" -> CloseWith(L, 0, 0, OpReturn, <<>>)
        [] x.k = "store" ->
             IF L.cur = 0 THEN L ELSE [L EXCEPT !.stores = Append(@, PtrW)]

LayoutBody(L, body, j) ==
  IF j > Len(body) THEN L
  ELSE LayoutBody(LayoutStmt(L, body[j]), body, j + 1)

IdV == 1            \* the id of the variable the conditions load
IdEntry == 2        \* the id of the first label

\* the blocks of a function body, in block order
LayoutFunction(body) ==
  CloseWith(LayoutBody([closed |-> <<>>, cur |-> IdEntry, next |-> IdEntry + 1,
                        head |-> 0, merge |-> 0, stores |-> <<>>], body, 1),
            0, 0, OpReturn, <<>>)

RECURSIVE BlockInstructions(_, _, _, _)
\* the instructions of blocks descs[j..] appended to ops: for each block its
\* label, its stores, the load of its branch condition, its merge and its
\* terminator
BlockInstructions(descs, j, ops, condBase) ==
  IF j > Len(descs) THEN ops
  ELSE LET d == descs[j]
           hasCond == d.exitOp = OpBranchConditional
           hasMerge == d.mergeOp # 0
           nStores == Len(d.stores)
           labelP == Len(ops) + 1
           condP == labelP + nStores + 1
           mergeP == labelP + nStores + (IF hasCond THEN 1 ELSE 0) + 1
           exitP == labelP + nStores + (IF hasCond THEN 1 ELSE 0)
                           + (IF hasMerge THEN 1 ELSE 0) + 1
       IN  BlockInstructions(descs, j + 1,
             ops \o <<MkLabel(d.label,
                              [k \in 1 .. nStores |-> labelP + k]
                                \o (IF hasCond THEN <<condP>> ELSE <<>>),
                              IF hasMerge THEN mergeP ELSE NULL, exitP)>>
                 \o [k \in 1 .. nStores |->
                       MkOperation(OpStore, 0, <<d.stores[k], PtrK>>)]
                 \o (IF hasCond
                     THEN <<MkOperation(OpLoad, condBase + d.label, <<1>>)>>
                     ELSE <<>>)
                 \o (IF hasMerge
                     THEN <<MkFlow(d.mergeOp, NULL, <<d.mergeTarget>>)>>
                     ELSE <<>>)
                 \o <<MkFlow(d.exitOp, IF hasCond THEN condP ELSE NULL,
                             d.exitTargets)>>,
             condBase)

\* the instructions of the module holding the structured function
StructuredModule(L) ==
  BlockInstructions(L.closed, 1, <<MkVariable(IdV, "v")>>, L.next)

\* func->blocks: the labels of the layout, as instruction pointers
BlocksOf(ops, L) ==
  [j \in 1 .. Len(L.closed) |->
     CHOOSE p \in 1 .. Len(ops) :
       ops[p].opcode = OpLabel /\ ops[p].id = L.closed[j].label]

\* the state after ParseSPIRV of a module holding the structured function
StructuredFunction(body) ==
  \E L \in {LayoutFunction(body)} : \E ops \in {StructuredModule(L)} :
    /\ operations = ops
    /\ ids = IdTable(ops, 2 * L.next + 1)
    /\ moduleVersion = Version /\ generator = 0 /\ moduleGlobals = <<>>
    /\ blocks = BlocksOf(ops, L)
    /\ variables = <<1>>

\* ---- structured functions that store the constant k to the local w: the
\* statement "store", alone or in the bodies of if, if/else and while
MaxDeclStmts == 2   \* most statements at the top level of such a function
MaxDeclDepth == 2   \* deepest nesting of a store in such a function

RECURSIVE DeclStmts(_)
DeclStmts(d) ==
  IF d = 0 THEN {Stmt("store", <<>>, <<>>)}
  ELSE LET bodies == {<<>>} \cup {<<x>> : x \in DeclStmts(d - 1)}
       IN  {Stmt("store", <<>>, <<>>)}
             \cup {Stmt("if", a, <<>>) : a \in bodies}
             \cup {Stmt("ifelse", a, e) : a \in bodies, e \in bodies}
             \cup {Stmt("while", a, <<>>) : a \in bodies}

DeclBodies ==
  {<<x>> : x \in DeclStmts(MaxDeclDepth)}
    \cup SeqsUpTo(DeclStmts(MaxDeclDepth - 1), MaxDeclStmts)

\* the instructions of the module holding the storing function
StoringModule(L) ==
  BlockInstructions(L.closed, 1,
                    <<MkVariable(IdV, "v"), MkVariable(2 * L.next, "w"),
                      MkConstant(2 * L.next + 1, "k", 0)>>,
                    L.next)

\* the state after ParseSPIRV of a module holding the storing function
StoringFunction(body) ==
  \E L \in {LayoutFunction(body)} : \E ops \in {StoringModule(L)} :
    /\ operations = ops
    /\ ids = IdTable(ops, 2 * L.next + 2)
    /\ moduleVersion = Version /\ generator = 0 /\ moduleGlobals = <<>>
    /\ blocks = BlocksOf(ops, L)
    /\ variables = <<IdV, PtrW>>

DeclInit ==
  /\ \E body \in DeclBodies : StoringFunction(body)
  /\ DisStart

FlowInit ==
  /\ \E body \in FunctionBodies : StructuredFunction(body)
  /\ DisStart

----------------------------------------------------------------------------
\* Properties of the inliner

\* where instruction p stands in the function's linear block order
PositionOf(ops, blks, p) ==
  LET lin == LinearOrder(ops, blks, 1)
  IN  CHOOSE k \in 1 .. Len(lin) : lin[k] = p

RECURSIVE RootVariable(_, _)
\* the variable a pointer points into
RootVariable(ops, ptr) ==
  IF ops[ptr].opcode = OpAccessChain THEN RootVariable(ops, ops[ptr].arguments[1])
  ELSE ptr

\* a load whose pointer operand the single-store elision has replaced by the
\* store: its expression is the store's source
IsElidedLoad(ops, p) ==
  ops[p].opcode = OpLoad /\ ops[ops[p].arguments[1]].opcode = OpStore

RECURSIVE ExprLoads(_, _)
\* the loads the expression tree of p evaluates
ExprLoads(ops, p) ==
  IF ~ops[p].isOp THEN {}
  ELSE IF IsElidedLoad(ops, p)
  THEN ExprLoads(ops, ops[ops[p].arguments[1]].arguments[2])
  ELSE (IF ops[p].opcode = OpLoad THEN {p} ELSE {})
         \cup UNION {ExprLoads(ops, ops[p].arguments[k]) :
                       k \in 1 .. Len(ops[p].arguments)}

\* a store to the variable that load ld reads lies after ld and before
\* consumer
StoreBetween(ops, blks, ld, consumer) ==
  LET lin == LinearOrder(ops, blks, 1)
  IN  \E k \in 1 .. Len(lin) :
        /\ PositionOf(ops, blks, ld) < k
        /\ k < PositionOf(ops, blks, consumer)
        /\ ops[lin[k]].opcode = OpStore
        /\ RootVariable(ops, ops[lin[k]].arguments[1])
             = RootVariable(ops, ops[ld].arguments[1])

\* the operands folded into instruction p that are operations
FoldedOperands(ops, p) ==
  {k \in 1 .. Len(ops[p].arguments) :
     (k - 1) \in ops[p].inlineArgs /\ ops[ops[p].arguments[k]].isOp}

\* C1: purity soundness. Whenever an operand A is folded into a consumer I
\* (argument inlining, adjacent store-of-temp merging or single-store/
\* single-load elision), no store to a variable that a load of A's expression
\* reads lies between that load and I in the linear block order.
C1_PuritySoundness ==
  disPc \in {"instr", "sweep", "rebuild", "done"} =>
    \A p \in 1 .. Len(operations) :
      operations[p].isOp =>
        \A k \in FoldedOperands(operations, p) :
          \A ld \in ExprLoads(operations, operations[p].arguments[k]) :
            ~StoreBetween(operations, blocks, ld, p)

\* a store whose destination is the pointer p lies strictly between the
\* positions of from and to in the linear block order
StoreToPointerBetween(ops, blks, p, from, to) ==
  LET lin == LinearOrder(ops, blks, 1)
  IN  \E i, j, k \in 1 .. Len(lin) :
        /\ i < j /\ j < k
        /\ lin[i] = from /\ lin[k] = to
        /\ ops[lin[j]].opcode = OpStore
        /\ ops[lin[j]].arguments[1] = p

\* from comes before to in the linear block order
Precedes(ops, blks, from, to) ==
  LET lin == LinearOrder(ops, blks, 1)
  IN  \E i, k \in 1 .. Len(lin) : i < k /\ lin[i] = from /\ lin[k] = to

\* C17: IsUnmodified(func, from, to) is true for a non-operation; for a load
\* of p, whatever kind of pointer p is (a variable or the result of an access
\* chain), it is false exactly when a store whose destination is p lies
\* strictly between from and to in the linear block order; for any other
\* operation it is the conjunction over the operands, position 0 of a store
\* skipped.
C17_IsUnmodifiedDefinition ==
  disPc = "instr" =>
    \A from, to \in 1 .. Len(operations) :
      /\ ~operations[from].isOp =>
           IsUnmodified(operations, blocks, from, to)
      /\ (operations[from].isOp /\ operations[from].opcode = OpLoad
            /\ Precedes(operations, blocks, from, to)) =>
           (~IsUnmodified(operations, blocks, from, to)
              <=> StoreToPointerBetween(operations, blocks,
                                        operations[from].arguments[1], from, to))
      /\ (operations[from].isOp /\ operations[from].opcode # OpLoad) =>
           (IsUnmodified(operations, blocks, from, to)
              <=> \A k \in 1 .. Len(operations[from].arguments) :
                    \/ operations[from].opcode = OpStore /\ k = 1
                    \/ IsUnmodified(operations, blocks,
                                    operations[from].arguments[k], to))

\* the inliner takes its step for the instruction at the cursor
InlinerStep ==
  /\ disPc = "instr" /\ instIdx' = instIdx + 1
  /\ instIdx <= Len(operations[blocks[blockIdx]].instructions)

CurrentInstr == operations[blocks[blockIdx]].instructions[instIdx]

\* A is small enough to fold into I
WithinLimit(ops, I, A) ==
  /\ ops[A].complexity < (IF ops[I].opcode = OpCompositeConstruct THEN 2 ELSE 3)
  /\ \/ Len(ops[A].arguments) <= 2
     \/ ops[A].opcode \in {OpAccessChain, OpSelect, OpCompositeConstruct}

\* the folding condition as stated: only an operation is folded, and never
\* the destination of a Store
FoldsAsStated(ops, blks, I, k) ==
  LET A == ops[I].arguments[k] IN
  /\ ops[A].isOp
  /\ WithinLimit(ops, I, A)
  /\ IsUnmodified(ops, blks, A, I)
  /\ ~(ops[I].opcode = OpStore /\ k = 1)

\* the folding condition of the code: an argument that is no operation is
\* always folded; the destination of a Store is folded without the purity test
FoldsInCode(ops, blks, I, k) ==
  LET A == ops[I].arguments[k] IN
  ops[A].isOp =>
    /\ WithinLimit(ops, I, A)
    /\ (ops[I].opcode = OpStore /\ k = 1) \/ IsUnmodified(ops, blks, A, I)

\* bit k-1 may be set by something else than the argument loop: it was set
\* before (an earlier call of Disassemble), or it is bit 1 of a Store or
\* CompositeInsert, which the merge of a store with the operation just before
\* it sets
SetOtherwise(ops, I, k) ==
  \/ (k - 1) \in ops[I].inlineArgs
  \/ ops[I].opcode \in {OpStore, OpCompositeInsert} /\ k = 2

\* C15 as stated: in the inliner's step for an operation I, bit j of
\* I.inlineArgs is set, and operand A gone from the emit list, if and only if
\* A is an operation below the complexity limit (2 in a CompositeConstruct,
\* else 3) with at most 2 arguments (or an AccessChain / Select /
\* CompositeConstruct), IsUnmodified(A, I) holds and j is not position 0 of a
\* Store; bit 0 of a Store is never set.
C15_FoldingPredicateOperationsOnly ==
  [][(InlinerStep /\ operations[CurrentInstr].isOp) =>
       LET I == CurrentInstr IN
       \A k \in 1 .. Len(operations[I].arguments) :
         /\ FoldsAsStated(operations, blocks, I, k)
              => /\ (k - 1) \in operations'[I].inlineArgs
                 /\ ~InSeqOf(operations[I].arguments[k], funcops')
         /\ (k - 1) \in operations'[I].inlineArgs
              => FoldsAsStated(operations, blocks, I, k) \/ SetOtherwise(operations, I, k)
         /\ operations[I].opcode = OpStore => 0 \notin operations'[I].inlineArgs]_vars

\* C15 as the code has it: bit j is set, and operand A gone from the emit
\* list, if and only if A is not an operation at all, or A is an operation
\* below the complexity limit with at most 2 arguments (or an AccessChain /
\* Select / CompositeConstruct) that is the destination of a Store or for which
\* IsUnmodified(A, I) holds. So bit 0 of a Store is set whenever its destination
\* is a variable or a small enough access chain.
C15_FoldingPredicate ==
  [][(InlinerStep /\ operations[CurrentInstr].isOp) =>
       LET I == CurrentInstr IN
       \A k \in 1 .. Len(operations[I].arguments) :
         /\ FoldsInCode(operations, blocks, I, k)
              => /\ (k - 1) \in operations'[I].inlineArgs
                 /\ ~InSeqOf(operations[I].arguments[k], funcops')
         /\ (k - 1) \in operations'[I].inlineArgs
              => FoldsInCode(operations, blocks, I, k) \/ SetOtherwise(operations, I, k)]_vars

\* C15 witness: the function is disassembled; a CompositeConstruct has kept
\* its first operand, an operation of complexity 2, unfolded and has folded
\* its second operand, a constant
C15_Witness ==
  /\ disPc = "done" /\ run = 1
  /\ \E p \in 1 .. Len(operations) :
       /\ operations[p].opcode = OpCompositeConstruct
       /\ operations[operations[p].arguments[1]].isOp
       /\ operations[operations[p].arguments[1]].complexity = 2
       /\ ~operations[operations[p].arguments[2]].isOp
       /\ operations[p].inlineArgs = {1}

\* the positions of the linear block order that hold a store to v
StoresTo(ops, blks, v) ==
  LET lin == LinearOrder(ops, blks, 1)
  IN  {k \in 1 .. Len(lin) : /\ ops[lin[k]].opcode = OpStore
                             /\ ops[lin[k]].arguments[1] = v}

\* the positions of the linear block order that hold a load of v
LoadsOf(ops, blks, v) ==
  LET lin == LinearOrder(ops, blks, 1)
  IN  {k \in 1 .. Len(lin) : /\ ops[lin[k]].opcode = OpLoad
                             /\ ops[lin[k]].arguments[1] = v}

\* the step rewrites the pointer operand of the load at the cursor
LoadRewritten ==
  /\ InlinerStep
  /\ operations[CurrentInstr].opcode = OpLoad
  /\ operations'[CurrentInstr].arguments[1] # operations[CurrentInstr].arguments[1]

\* C18: the inliner rewrites Load v to the source of a store to v, removing
\* the store and the variable, only when the whole function holds exactly one
\* store to v (before or after the load), that store is unmodified with
\* respect to the load and no other load of v exists in any block.
C18_SingleStoreElisionPrecondition ==
  [][LoadRewritten =>
       LET v   == operations[CurrentInstr].arguments[1]
           lin == LinearOrder(operations, blocks, 1)
       IN  /\ Cardinality(StoresTo(operations, blocks, v)) = 1
           /\ \A k \in StoresTo(operations, blocks, v) :
                IsUnmodified(operations, blocks, lin[k], CurrentInstr)
           /\ Cardinality(LoadsOf(operations, blocks, v)) = 1]_vars

\* the step handles the function call at the cursor and takes the store s
\* off the emit list
StoreRemovedByCall(s) ==
  /\ InlinerStep
  /\ operations[CurrentInstr].opcode = OpFunctionCall
  /\ operations[s].opcode = OpStore
  /\ InSeqOf(s, funcops) /\ ~InSeqOf(s, funcops')

\* the positions of the block of the cursor, within lo .. hi, whose
\* instruction has A among its operands
UsesIn(A, lo, hi) ==
  LET insts == operations[blocks[blockIdx]].instructions
  IN  {j \in lo .. hi :
         /\ j \in 1 .. Len(insts)
         /\ operations[insts[j]].isOp
         /\ \E aa \in 1 .. Len(operations[insts[j]].arguments) :
              operations[insts[j]].arguments[aa] = A}

\* C19: a store S leaves the emit list at a function call only when an
\* argument A of the call is a local variable and the destination (position
\* 0) of S, S is the only use of A before the call, and A is not used after
\* the call (or is loaded after it, the out and inout parameters); a store
\* that has A only as its stored value is never removed.
C19_InParameterElisionPrecondition ==
  [][\A s \in 1 .. Len(operations) :
       StoreRemovedByCall(s) =>
         LET insts == operations[blocks[blockIdx]].instructions
         IN  \E a \in 1 .. Len(operations[CurrentInstr].arguments) :
               LET A == operations[CurrentInstr].arguments[a]
               IN  /\ operations[A].isVar
                   /\ InSeqOf(A, funcVars)
                   /\ operations[s].arguments[1] = A
                   /\ \A j \in UsesIn(A, 1, instIdx - 1) : insts[j] = s
                   /\ \A j \in UsesIn(A, instIdx + 1, Len(insts)) :
                        operations[insts[j]].opcode = OpLoad]_vars

\* the loads after the call at the cursor whose pointer is A
LoadsAfterCall(A) ==
  LET insts == operations[blocks[blockIdx]].instructions
  IN  {insts[j] : j \in {i \in UsesIn(A, instIdx + 1, Len(insts)) :
                           operations[insts[i]].opcode = OpLoad}}

\* the stores of the block of the cursor that have L among their operands
StoresConsuming(L) ==
  LET insts == operations[blocks[blockIdx]].instructions
  IN  {insts[j] : j \in {i \in UsesIn(L, 1, Len(insts)) :
                           operations[insts[i]].opcode = OpStore}}

\* the step handles the function call at the cursor
CallStep ==
  /\ InlinerStep
  /\ operations[CurrentInstr].opcode = OpFunctionCall

\* C20: for an argument A of a function call that is the pointer of exactly
\* one load L after the call, the call's argument is rewritten and a store
\* after the call suppressed only when exactly one store consumes L; when no
\* store of the block consumes L, nothing is rewritten, nothing is suppressed
\* and no null store is dereferenced.
C20_OutParameterElisionPrecondition ==
  [][CallStep =>
       \A a \in 1 .. Len(operations[CurrentInstr].arguments) :
         LET A == operations[CurrentInstr].arguments[a]
         IN  \A L \in LoadsAfterCall(A) :
               LoadsAfterCall(A) = {L} =>
                 /\ ignore_items' # ignore_items =>
                      Cardinality(StoresConsuming(L)) = 1
                 /\ StoresConsuming(L) = {} =>
                      /\ disPc' # "fault"
                      /\ ignore_items' = ignore_items
                      /\ operations'[CurrentInstr].arguments =
                           operations[CurrentInstr].arguments]_vars

\* C24: CompositeInsert folding. A CompositeInsert is folded only into a
\* Store whose destination is the variable the insert's composite was loaded
\* from; it is folded into no other consumer and into no store to another
\* variable.
C24_CompositeInsertFolding ==
  disPc \in {"instr", "sweep", "rebuild", "done"} =>
    \A I \in 1 .. Len(operations) :
      operations[I].isOp =>
        \A k \in 1 .. Len(operations[I].arguments) :
          LET P == operations[I].arguments[k]
          IN  ((k - 1) \in operations[I].inlineArgs
                 /\ operations[P].opcode = OpCompositeInsert) =>
                /\ operations[I].opcode = OpStore /\ k = 2
                /\ operations[operations[P].arguments[1]].opcode = OpLoad
                /\ operations[operations[P].arguments[1]].arguments[1]
                     = operations[I].arguments[1]

\* C6: inliner idempotence. When the inliner has run a second time over the
\* function, every operation carries the inlineArgs and the complexity the
\* first run left on it.
C6_InlinerIdempotence ==
  (run = 2 /\ disPc \in {"sweep", "rebuild", "done"}) =>
    Annotations(operations) = firstRun

\* the instructions of the inout call pattern in the function's block
TheCall ==
  CHOOSE p \in 1 .. Len(operations) : operations[p].opcode = OpFunctionCall
StoreToT ==
  CHOOSE p \in 1 .. Len(operations) :
    operations[p].opcode = OpStore /\ operations[p].arguments[1] = PtrT
StoreBack ==
  CHOOSE p \in 1 .. Len(operations) :
    /\ operations[p].opcode = OpStore /\ operations[p].arguments[1] = PtrV
    /\ p > TheCall /\ operations[p].arguments[2] > TheCall
    /\ operations[operations[p].arguments[2]].opcode = OpLoad

InSeq(x, seq) == \E k \in 1 .. Len(seq) : seq[k] = x

\* the text holds the token tok
TextHas(lines, tok) ==
  \E k \in 1 .. Len(lines) : InSeq(tok, lines[k].text)

\* C8: inout call-parameter elision. For a block holding
\* Store t, (Load v); FunctionCall f(t); Store v, (Load t) with no other use
\* of the local t, after the inliner the call's argument is v, the two stores
\* and the two loads are off the emit list and t is off the variable list;
\* the finished text has the line f(v); and does not mention t.
C8_InoutElision ==
  (run = 1 /\ disPc \in {"sweep", "rebuild", "done"}) =>
    /\ operations[TheCall].arguments = <<PtrV>>
    /\ ~InSeq(StoreToT, funcops)
    /\ ~InSeq(StoreBack, funcops)
    /\ ~InSeq(operations[StoreToT].arguments[2], funcops)
    /\ ~InSeq(operations[StoreBack].arguments[2], funcops)
    /\ ~InSeq(PtrT, funcVars)
    /\ disPc = "done" =>
         /\ \E k \in 1 .. Len(m_Disassembly) :
              m_Disassembly[k].text = <<"f", "(", "v", ")", ";">>
         /\ ~TextHas(m_Disassembly, "t")

----------------------------------------------------------------------------
\* Properties of the control-flow passes

\* C2: stack well-nestedness. When the rebuild loop has finished over a
\* function of structured control flow, the selection-merge stack, the
\* else-target stack and the loop-merge stack are empty.
C2_StackWellNestedness ==
  (disPc = "done" \/ (disPc = "rebuild" /\ rebuildIdx > Len(funcops))) =>
    /\ selectionstack = <<>>
    /\ elsestack = <<>>
    /\ loopmergestack = <<>>

\* the flow instructions of the emit list other than entry l that have label
\* among their targets
OtherReferences(l, label) ==
  {k \in 1 .. Len(funcops) :
     /\ k # l
     /\ operations[funcops[k]].isFlow
     /\ InSeq(label, operations[funcops[k]].targets)}

\* the labels of the function that the sweep took off the emit list
RemovedLabels ==
  {blocks[j] : j \in {k \in 2 .. Len(blocks) : ~InSeq(blocks[k], funcops)}}

\* C5: dead-label elision. A sweep step that stands on an adjacent pair
\* OpBranch L; OpLabel L removes both when no other flow instruction of the
\* emit list has L among its targets, and otherwise removes the branch and
\* keeps the label; the finished text has neither a goto line nor a label
\* line for a label that was removed.
C5_DeadLabelElision ==
  /\ [][(disPc = "sweep" /\ disPc' = "sweep"
          /\ RedundantPair(operations, funcops, sweepIdx)) =>
         LET br == funcops[sweepIdx]
             lab == funcops[sweepIdx + 1]
         IN  IF OtherReferences(sweepIdx, operations[lab].id) = {}
             THEN /\ funcops' = EraseAt(EraseAt(funcops, sweepIdx), sweepIdx)
                  /\ ~InSeq(br, funcops') /\ ~InSeq(lab, funcops')
             ELSE /\ funcops' = EraseAt(funcops, sweepIdx)
                  /\ ~InSeq(br, funcops') /\ InSeq(lab, funcops')]_vars
  /\ [](disPc = "done" =>
         \A lab \in RemovedLabels :
           \A k \in 1 .. Len(m_Disassembly) :
             /\ m_Disassembly[k].text
                  # <<"Label", ToString(operations[lab].id), ":">>
             /\ m_Disassembly[k].text
                  # <<"goto", "Label", ToString(operations[lab].id), ";">>)

\* a finished function in which the sweep removed one pair entirely and of
\* another pair only the branch
C5_Witness ==
  /\ disPc = "done"
  /\ RemovedLabels # {}
  /\ \E p \in 1 .. Len(operations) :
       /\ operations[p].opcode = OpBranch
       /\ ~InSeq(p, funcops)
       /\ InSeq(ids[operations[p].targets[1] + 1], funcops)

\* C21: loop close. The loop-header, loop-start and loop-merge stacks are
\* popped together when the label of a loop's merge block is met, so the
\* three always have the same height.
C21_LoopStacksEqualHeight ==
  /\ Len(loopheadstack) = Len(loopmergestack)
  /\ Len(loopstartstack) = Len(loopmergestack)

\* the rebuild loop takes its step for an OpBranch on the emit list
BranchStep ==
  /\ disPc = "rebuild" /\ rebuildIdx <= Len(funcops)
  /\ operations[funcops[rebuildIdx]].opcode = OpBranch
  /\ rebuildIdx' # rebuildIdx

\* the id of the header of the innermost loop still open: the block whose
\* OpLoopMerge names the top of the loop-merge stack
InnermostOpenHeader ==
  LET p == CHOOSE p \in 1 .. Len(operations) :
             /\ operations[p].isBlock
             /\ operations[p].mergeFlow # NULL
             /\ operations[operations[p].mergeFlow].opcode = OpLoopMerge
             /\ operations[operations[p].mergeFlow].targets[1] = Last(loopmergestack)
  IN  operations[p].id

\* the lines the stated classification gives the branch at the cursor
BranchLines ==
  LET p == funcops[rebuildIdx]
      T == operations[p].targets[1]
      atLoopEnd == /\ rebuildIdx + 1 <= Len(funcops)
                   /\ operations[funcops[rebuildIdx + 1]].opcode = OpLabel
                   /\ operations[funcops[rebuildIdx + 1]].id = Last(loopmergestack)
  IN  IF selectionstack # <<>> /\ T = Last(selectionstack) THEN <<>>
      ELSE IF loopmergestack # <<>> /\ T = InnermostOpenHeader
      THEN (IF atLoopEnd THEN <<>> ELSE <<Line(indent, <<"continue", ";">>)>>)
      ELSE IF loopmergestack # <<>> /\ T = Last(loopmergestack)
      THEN <<Line(indent, <<"break", ";">>)>>
      ELSE <<Line(indent, DisassembleInstruction(operations, ids, p, FALSE)
                            \o <<";">>)>>

\* C22: branch classification. An OpBranch to the top of the selection-merge
\* stack emits nothing; otherwise one to the header of the innermost loop
\* still open emits nothing when the loop's merge label follows and
\* `continue;` otherwise; otherwise one to that loop's merge block emits
\* `break;`; only a branch to none of these is printed as a goto. After an
\* inner loop has closed, the enclosing loop is the innermost open one.
C22_BranchClassification ==
  [][BranchStep => funcDisassembly' = funcDisassembly \o BranchLines]_vars

\* the texts of the statements of w in a storing function
BareDeclW == <<TypeName, "w", ";">>
PlainStoreW == <<"w", "=", "k", ";">>
MergedStoreW == <<TypeName, "w", "=", "k", ";">>

\* the lines of the module text that declare w, and those that store to it
DeclLinesW ==
  {k \in 1 .. Len(m_Disassembly) :
     m_Disassembly[k].text \in {BareDeclW, MergedStoreW}}
StoreLinesW ==
  {k \in 1 .. Len(m_Disassembly) :
     m_Disassembly[k].text \in {PlainStoreW, MergedStoreW}}

\* the line of the first store to w
FirstStoreW == CHOOSE k \in StoreLinesW : \A j \in StoreLinesW : k <= j

\* the opening line of the outermost scope that encloses line k: the last
\* line before k at the function's top level that opens a scope
ScopeOpening(k) ==
  CHOOSE e \in 1 .. (k - 1) :
    /\ m_Disassembly[e].indent = tabSize
    /\ m_Disassembly[e].text[1] \in {"if", "while"}
    /\ \A j \in (e + 1) .. (k - 1) :
         ~(m_Disassembly[j].indent = tabSize
             /\ m_Disassembly[j].text[1] \in {"if", "while"})

RECURSIVE RefersTo(_, _, _)
\* v is an operand of the instruction p or of an expression folded into p;
\* a store folded into a load stands for its source alone (`if(inlineOp)
\* return src`)
RefersTo(ops, p, v) ==
  /\ ops[p].isOp
  /\ \E k \in 1 .. Len(ops[p].arguments) :
       LET A == ops[p].arguments[k] IN
       \/ A = v
       \/ /\ (k - 1) \in ops[p].inlineArgs
          /\ IF ops[A].opcode = OpStore
             THEN \/ ops[A].arguments[2] = v
                  \/ 1 \in ops[A].inlineArgs /\ RefersTo(ops, ops[A].arguments[2], v)
             ELSE RefersTo(ops, A, v)

\* the locals the inliner has taken off the function's variable list
RemovedVariables ==
  {variables[k] : k \in 1 .. Len(variables)} \ {funcVars[k] : k \in 1 .. Len(funcVars)}

\* C26: once the inliner has gone through every block, no instruction left on
\* the emit list, and no expression folded into one, has as an operand a
\* local variable that the inliner removed from the function's variable list.
C26_RemovedVariablesUnreferenced ==
  disPc \in {"sweep", "rebuild"} =>
    \A v \in RemovedVariables :
      \A k \in 1 .. Len(funcops) : ~RefersTo(operations, funcops[k], v)

RECURSIVE NamedOperands(_, _, _)
\* the operation results that the instruction p, or an expression folded
\* into it, renders by ID name: the operands whose inlineArgs bit is clear
\* (a store folded into a load renders its source alone)
NamedOperands(ops, p, folded) ==
  IF ~ops[p].isOp THEN {}
  ELSE UNION {LET A == ops[p].arguments[k] IN
              IF folded /\ ops[p].opcode = OpStore /\ k = 1 THEN {}
              ELSE IF (k - 1) \in ops[p].inlineArgs THEN NamedOperands(ops, A, TRUE)
              ELSE IF ops[A].isOp THEN {A}
              ELSE {} : k \in 1 .. Len(ops[p].arguments)}

\* the instructions of the function's blocks
BlockInstructionsOf(ops, blks) ==
  LET lin == LinearOrder(ops, blks, 1) IN {lin[k] : k \in 1 .. Len(lin)}

\* C27: after the inliner has processed the function, every operation result
\* that an instruction left on the emit list renders by ID name (inlineArgs
\* bit clear) is produced by an instruction that is on the emit list before
\* it; a producer folded into one consumer is not named by another.
C27_NoDanglingNamedOperand ==
  disPc = "sweep" =>
    \A k \in 1 .. Len(funcops) :
      \A A \in NamedOperands(operations, funcops[k], FALSE) :
        A \in BlockInstructionsOf(operations, blocks)
          => \E i \in 1 .. k - 1 : funcops[i] = A

\* the loop condition of the sweep, `l < funcops.size()-1` in size_t, holds
\* and the body reads funcops[l]
SweepReads ==
  /\ disPc = "sweep"
  /\ sweepIdx < Len(funcops) \/ funcops = <<>>

\* C28: for every function, one without blocks included, the index at which
\* the redundant-label sweep reads the emit list is below the list's length
\* (and so is the index of each rebuild iteration).
C28_EmitListBounds ==
  /\ SweepReads => sweepIdx <= Len(funcops)
  /\ disPc = "rebuild" => rebuildIdx <= Len(funcops) + 1

\* C29: at every step of the rebuild loop, indent = tabSize * (1 + height of
\* the selection-merge stack + height of the loop-merge stack); so indent is
\* never below tabSize and the indent - tabSize of a `} else {` line is never
\* negative.
C29_IndentInvariant ==
  disPc = "rebuild" =>
    /\ indent = tabSize * (1 + Len(selectionstack) + Len(loopmergestack))
    /\ indent - tabSize >= 0

\* C29 witness: the rebuild loop is inside an if that is inside a while (or
\* the other way round), three levels deep
C29_Witness ==
  /\ disPc = "rebuild"
  /\ selectionstack # <<>> /\ loopmergestack # <<>>
  /\ indent = 3 * tabSize

----------------------------------------------------------------------------
\* MakeReflection and Disassemble called on one parsed module: the names the
\* reflection gives the global variables, and the names Disassemble caches

MaxIndGlobals == 2  \* most global variables of such a module
MaxDisCalls == 2    \* most calls of Disassemble on it
\* the value of `reflection` before any call of MakeReflection
NoReflection == <<[kind |-> "none", id |-> 0, name |-> "", members |-> <<>>]>>

\* SPVTypeData::GetName as a function of the module: the name is computed on
\* the first call and kept in type->name
RECURSIVE GetName(_, _)
GetName(ops, t) ==
  IF ops[t].typeName # "" THEN ops
  ELSE CASE ops[t].typeKind = "Float" -> [ops EXCEPT ![t].typeName = "float"]
         [] ops[t].typeKind = "Pointer" ->
              LET o1 == GetName(ops, ops[t].baseType)
              IN  [o1 EXCEPT ![t].typeName = o1[ops[t].baseType].typeName \o "*"]
         [] OTHER ->
              \* no case for a struct: RDCERR("Unexpected type!")
              [ops EXCEPT ![t].typeName = "Unhandled_Type"]

\* the name GetName returns
NameOfType(ops, t) == GetName(ops, t)[t].typeName

\* SPVTypeData::DeclareVariable for a variable without decorations whose type
\* is not an array: the text, and the module with the names it cached
DeclareVariableOf(ops, t, varName) ==
  [operations |-> GetName(ops, t),
   text |-> <<NameOfType(ops, t), varName>>]

RECURSIVE DeclareMembers(_, _, _)
\* the loop over the children of the struct s, from child c on
DeclareMembers(M, s, c) ==
  IF c > Len(M.operations[s].children) THEN M
  ELSE LET d == DeclareVariableOf(M.operations, M.operations[s].children[c],
                                  "member" \o ToString(c - 1))
       IN  DeclareMembers([operations |-> d.operations,
                           text |-> Append(M.text, d.text \o <<";">>)],
                          s, c + 1)

RECURSIVE DeclareStructs(_, _, _)
\* the loop over module.structs of Disassemble
DeclareStructs(M, structs, k) ==
  IF k > Len(structs) THEN M
  ELSE LET s  == structs[k]
           o1 == GetName(M.operations, s)
           M1 == DeclareMembers(
                   [operations |-> o1,
                    text |-> Append(M.text, <<"struct", o1[s].typeName, "{">>)],
                   s, 1)
       IN  DeclareStructs(
             [M1 EXCEPT !.text = Append(@, <<"};", "// struct",
                                             M1.operations[s].typeName>>)],
             structs, k + 1)

\* ToStr::Get(storage)
StorageClassName(storage) ==
  CASE storage = StorageClassUniformConstant -> "UniformConstant"
    [] storage = StorageClassInput -> "Input"
    [] storage = StorageClassUniform -> "Uniform"
    [] storage = StorageClassOutput -> "Output"

RECURSIVE DeclareGlobals(_, _, _)
\* the loop over module.globals of Disassemble: a variable with a blank name
\* inherits the name its type has at that moment
DeclareGlobals(M, globs, i) ==
  IF i > Len(globs) THEN M
  ELSE LET g   == globs[i]
           ops == M.operations
           t   == ops[g].varType
           str == IF ops[g].str # "" THEN ops[g].str
                  ELSE IF ops[t].typeName # "" THEN ops[t].typeName
                  ELSE IF ops[t].typeKind = "Pointer"
                          /\ ops[ops[t].baseType].typeName # ""
                       THEN ops[ops[t].baseType].typeName
                  ELSE ""
           o1  == [ops EXCEPT ![g].str = str]
           d   == DeclareVariableOf(o1, t, str)
       IN  DeclareGlobals(
             [operations |-> d.operations,
              text |-> Append(M.text,
                              <<StorageClassName(ops[g].storage)>> \o d.text
                                \o <<";">>)],
             globs, i + 1)

\* module.structs: the struct types, in the order they were parsed
StructsOf(ops) ==
  LET S == {p \in 1 .. Len(ops) : ops[p].typeKind = "Struct"}
      RECURSIVE Ascending(_)
      Ascending(T) ==
        IF T = {} THEN <<>>
        ELSE LET m == CHOOSE x \in T : \A y \in T : x <= y
             IN  <<m>> \o Ascending(T \ {m})
  IN  Ascending(S)

RECURSIVE MemberTypeNames(_, _, _)
\* MakeConstantBlockVariables: the type names of the members of the struct s
MemberTypeNames(M, s, c) ==
  IF c > Len(M.operations[s].children) THEN M
  ELSE LET t  == M.operations[s].children[c]
           o1 == GetName(M.operations, t)
       IN  MemberTypeNames([operations |-> o1,
                            names |-> Append(M.names, o1[t].typeName)],
                           s, c + 1)

RECURSIVE ReflectGlobals(_, _, _)
\* the loop over module.globals of MakeReflection: the entries in the order
\* they are pushed (the sorts that follow compare no name), and the module
\* with the names it cached
ReflectGlobals(M, globs, i) ==
  IF i > Len(globs) THEN M
  ELSE
  LET g    == globs[i]
      ops  == M.operations
      inst == ops[g]
      t    == inst.varType
      base == IF ops[t].typeKind = "Pointer" THEN ops[t].baseType ELSE t
  IN
  IF inst.storage \in {StorageClassInput, StorageClassOutput}
  THEN LET nm == IF inst.str # "" THEN inst.str
                 ELSE IF ops[t].typeKind = "Pointer"
                         /\ ops[ops[t].baseType].typeKind = "Struct"
                      THEN ops[ops[t].baseType].typeName
                 ELSE "sig" \o ToString(inst.id)
           \* AddSignatureParameter: one entry per member of a struct
           names == IF ops[base].typeKind = "Struct"
                    THEN [c \in 1 .. Len(ops[base].children) |-> nm \o "."]
                    ELSE <<nm>>
           kind == IF inst.storage = StorageClassInput THEN "input" ELSE "output"
       IN  ReflectGlobals(
             [M EXCEPT !.entries = @ \o [c \in 1 .. Len(names) |->
                                           [kind |-> kind, id |-> inst.id,
                                            name |-> names[c], members |-> <<>>]]],
             globs, i + 1)
  ELSE IF ops[base].typeKind = "Struct"
  THEN LET name == IF inst.str # "" THEN inst.str
                   ELSE IF ops[base].typeName # "" THEN ops[base].typeName
                   ELSE "uniforms" \o ToString(inst.id)
           mem  == MemberTypeNames([operations |-> ops, names |-> <<>>], base, 1)
       IN  ReflectGlobals(
             [operations |-> mem.operations,
              entries |-> Append(M.entries,
                                 [kind |-> "cblock", id |-> inst.id,
                                  name |-> name, members |-> mem.names])],
             globs, i + 1)
  ELSE LET name == IF inst.str = "" THEN "res" \o ToString(inst.id) ELSE inst.str
       IN  ReflectGlobals(
             [M EXCEPT !.entries = Append(@, [kind |-> "resource", id |-> inst.id,
                                              name |-> name, members |-> <<>>])],
             globs, i + 1)

\* SPVModule::MakeReflection as a function of the module
MakeReflection(ops, globs) ==
  ReflectGlobals([operations |-> ops, entries |-> <<>>], globs, 1)

\* ---- the modules explored: the float type, a struct of one float that an
\* OpName names or not, a pointer type to each, and the global variables
PtrFloat == 1
PtrStruct == 2
PtrToFloat == 3
PtrToStruct == 4
FirstGlobal == 5

MkType(id, kind, base, members, name) ==
  [NewInstruction EXCEPT !.id = id, !.isType = TRUE, !.typeKind = kind,
                         !.baseType = base, !.children = members,
                         !.typeName = name, !.str = name]

IndTypes(structName) ==
  <<MkType(PtrFloat, "Float", NULL, <<>>, ""),
    MkType(PtrStruct, "Struct", NULL, <<PtrFloat>>, structName),
    MkType(PtrToFloat, "Pointer", PtrFloat, <<>>, ""),
    MkType(PtrToStruct, "Pointer", PtrStruct, <<>>, "")>>

IndGlobalShapes ==
  [storage : {StorageClassInput, StorageClassUniform, StorageClassOutput},
   type : {PtrToFloat, PtrToStruct}, named : BOOLEAN]

IndGlobal(shape, p) ==
  [NewInstruction EXCEPT !.opcode = OpVariable, !.id = p, !.isVar = TRUE,
                         !.varType = shape.type, !.storage = shape.storage,
                         !.str = IF shape.named THEN "g" \o ToString(p) ELSE ""]

IndIdle ==
  /\ indPc = "idle" /\ parsedOperations = <<>> /\ disCalls = 0
  /\ reflection = NoReflection /\ declText = <<>>

\* the state ParseSPIRV leaves: the globals sorted by storage class
IndInit ==
  /\ indPc = "parsed"
  /\ \E structName \in {"", "S"} :
       \E shapes \in SeqsUpTo(IndGlobalShapes, MaxIndGlobals) :
         /\ \A i \in 1 .. Len(shapes) - 1 :
              shapes[i].storage <= shapes[i + 1].storage
         /\ operations = IndTypes(structName)
              \o [i \in 1 .. Len(shapes) |-> IndGlobal(shapes[i], FirstGlobal + i - 1)]
         /\ moduleGlobals = [i \in 1 .. Len(shapes) |-> FirstGlobal + i - 1]
  /\ parsedOperations = operations
  /\ ids = IdTable(operations, Len(operations) + 1)
  /\ moduleVersion = Version /\ generator = 0
  /\ disCalls = 0 /\ reflection = NoReflection /\ declText = <<>>

\* a call of SPVModule::Disassemble on the module, which has no function
DisassembleModule ==
  /\ indPc = "parsed" /\ disCalls < MaxDisCalls
  /\ \E M \in {DeclareGlobals(
                 DeclareStructs([operations |-> operations, text |-> <<>>],
                                StructsOf(operations), 1),
                 moduleGlobals, 1)} :
       /\ operations' = M.operations
       /\ declText' = M.text
  /\ disCalls' = disCalls + 1
  /\ UNCHANGED <<indPc, parsedOperations, reflection, moduleVersion, generator,
                 ids, moduleGlobals>>
  /\ UNCHANGED notIndVars

\* a call of SPVModule::MakeReflection on the module
ReflectModule ==
  /\ indPc = "parsed"
  /\ \E M \in {MakeReflection(operations, moduleGlobals)} :
       /\ operations' = M.operations
       /\ reflection' = M.entries
  /\ UNCHANGED <<indPc, parsedOperations, disCalls, declText, moduleVersion,
                 generator, ids, moduleGlobals>>
  /\ UNCHANGED notIndVars

IndNext == DisassembleModule \/ ReflectModule

\* C14: MakeReflection returns the same entries (names, members, order)
\* whether it is called on the freshly parsed module or after Disassemble has
\* run on it; and Disassemble leaves the global names and the type names that
\* MakeReflection reads as the parser left them.
C14_ReflectionIndependence ==
  indPc = "parsed" =>
    /\ reflection # NoReflection =>
         reflection = MakeReflection(parsedOperations, moduleGlobals).entries
    /\ \A p \in 1 .. Len(operations) :
         /\ operations[p].isVar => operations[p].str = parsedOperations[p].str
         /\ operations[p].typeKind = "Struct" =>
              operations[p].typeName = parsedOperations[p].typeName

----------------------------------------------------------------------------
\* Specifications: one per component, the other components left idle

InitShuffle == ShufInit /\ ModuleIdle /\ ReflIdle /\ ParseIdle /\ DisIdle /\ IndIdle

SpecShuffle == InitShuffle /\ [][RenderShuffle]_vars

InitReflect == ReflInit /\ ModuleIdle /\ ShufIdle /\ ParseIdle /\ DisIdle /\ IndIdle

SpecReflect == InitReflect /\ [][ReflNext]_vars

InitParse == ParseInit /\ ShufIdle /\ ReflIdle /\ DisIdle /\ IndIdle

SpecParse == InitParse /\ [][ParseNext]_vars

InitInline == InlineInit /\ ShufIdle /\ ReflIdle /\ ParseIdle /\ IndIdle

SpecInline == InitInline /\ [][DisNext]_vars

InitFlow == FlowInit /\ ShufIdle /\ ReflIdle /\ ParseIdle /\ IndIdle

SpecFlow == InitFlow /\ [][DisNext]_vars

InitDeclare == DeclInit /\ ShufIdle /\ ReflIdle /\ ParseIdle /\ IndIdle

SpecDeclare == InitDeclare /\ [][DisNext]_vars

InitConstant == ConstInit /\ ShufIdle /\ ReflIdle /\ DisIdle /\ IndIdle

SpecConstant == InitConstant /\ [][ParseNext]_vars

InitAccess == StoreInit /\ ShufIdle /\ ReflIdle /\ DisIdle /\ IndIdle

SpecAccess == InitAccess /\ [][ParseNext]_vars

InitInsert == InsertInit /\ ShufIdle /\ ReflIdle /\ ParseIdle /\ IndIdle

SpecInsert == InitInsert /\ [][DisNext]_vars

InitInout == InoutInit /\ ShufIdle /\ ReflIdle /\ ParseIdle /\ IndIdle

SpecInout == InitInout /\ [][DisNext]_vars

InitIndependence == IndInit /\ ShufIdle /\ ReflIdle /\ ParseIdle /\ DisIdle

SpecIndependence == InitIndependence /\ [][IndNext]_vars

====
